---- MODULE Spec2Model ----
(***************************************************************************)
(* Model of the demographics ingestion pipeline                            *)
(* (src/app/services/data_processor.py, class DataProcessor): the staging, *)
(* processed/ and error/ directories, the state_populations table, the     *)
(* monthly log, and one process_all_data run at a time, stepped statement  *)
(* by statement so that faults and a process stop can fall between steps.  *)
(***************************************************************************)
EXTENDS Integers, Sequences, FiniteSets, TLC

(***************************************************************************)
(* Bounds of the exploration.                                              *)
(***************************************************************************)
\* number of snapshot files the fetch collaborator stages
MaxFiles == 2
\* number of process_all_data runs started
MaxRuns == 2
\* number of injected faults (failed log write, failed move, failed or
\* interrupted database write, process stop)
MaxFaults == 2

(***************************************************************************)
(* Program constants.                                                      *)
(***************************************************************************)
\* validate_json_file samples data[:5]
ValidationPrefix == 5

(***************************************************************************)
(* File names.  A name is modelled by the parts the two patterns look at:  *)
(* the prefix, the two digit groups (their length and value) and the       *)
(* extension; digits tells the script its digits are written in.           *)
(***************************************************************************)
FileName(prefix, dlen, d, tlen, t, ext, digits) ==
    [prefix |-> prefix, dlen |-> dlen, date |-> d, tlen |-> tlen, time |-> t,
     ext |-> ext, digits |-> digits]

SnapshotName(d, t) ==
    FileName("demographic_data_", 8, d, 6, t, ".json", "ascii")

\* the same name written with digits of another script, which \d matches
\* and strptime reads as well
WideName(d, t) ==
    FileName("demographic_data_", 8, d, 6, t, ".json", "fullwidth")

\* demographic_data_20260124_120000.json, ..._130000.json, and a name whose
\* digit groups are not a calendar date (month 13)
NameCatalogue ==
    << SnapshotName(20260124, 120000),
       SnapshotName(20260124, 130000),
       SnapshotName(20261301, 0) >>

Min(a, b) == IF a < b THEN a ELSE b

Names == { NameCatalogue[i] : i \in 1..Len(NameCatalogue) }

(***************************************************************************)
(* File contents.  A JSON value read from a snapshot is "corrupt" (does    *)
(* not parse), "object" (parses, top level is not a list) or "list" with   *)
(* its items.  An item is "scalar" (not a dict), "noattr" (a dict without  *)
(* 'attributes'), "nullattr" ('attributes': null), "listattr" (attributes  *)
(* is a list or a string, state and pop telling whether it contains the    *)
(* two names) or "attr" (attributes is a dict with optional STATE_NAME and *)
(* POPULATION members).                                                    *)
(***************************************************************************)
Keys == {"CA", "TX"}

Val(t, v) == [t |-> t, v |-> v]
Absent == Val("absent", 0)
Null == Val("null", 0)

Item(kind, state, pop) == [kind |-> kind, state |-> state, pop |-> pop]
Feature(k, p) == Item("attr", Val("str", k), Val("int", p))
Scalar == Item("scalar", Absent, Absent)
NoAttr == Item("noattr", Absent, Absent)
NullAttr == Item("nullattr", Absent, Absent)
\* 'attributes': ["STATE_NAME", "POPULATION"], a list and not an object
ListAttr == Item("listattr", Val("str", "STATE_NAME"), Val("str", "POPULATION"))

Json(shape, items) == [shape |-> shape, items |-> items]

\* the contents the external fetch collaborator (or anyone else) may stage
Contents ==
    { Json("list", << Feature("CA", 1), Feature("CA", 2), Feature("TX", 1) >>),
      Json("list", << Feature("CA", 1) >>),
      Json("list", << >>),
      Json("corrupt", << >>),
      Json("list", << Feature("TX", 2), Feature("TX", 2), Feature("TX", 2),
                      Feature("TX", 2), Feature("TX", 2), Scalar >>) }

NoFile == Json("nofile", << >>)

(***************************************************************************)
(* Pure functions of DataProcessor.                                        *)
(***************************************************************************)
MatchesDiscovery_GlobOnly(name) ==
    /\ name.prefix = "demographic_data_"
    /\ name.ext = ".json"

\* glob("demographic_data_*.json") and re.match(demographic_data_\d{8}_\d{6}\.json$)
MatchesDiscovery(name) ==
    /\ name.prefix = "demographic_data_"
    /\ name.ext = ".json"
    /\ name.dlen = 8
    /\ name.tlen = 6

IsLeap(y) == (y % 4 = 0 /\ y % 100 # 0) \/ y % 400 = 0

DaysInMonth(y, m) ==
    IF m = 2 THEN (IF IsLeap(y) THEN 29 ELSE 28)
    ELSE IF m \in {4, 6, 9, 11} THEN 30 ELSE 31

\* datetime.strptime(date_part + time_part, "%Y%m%d%H%M%S") succeeds
StrptimeOk(d, t) ==
    LET y == d \div 10000
        m == (d \div 100) % 100
        dd == d % 100
        hh == t \div 10000
        mi == (t \div 100) % 100
        ss == t % 100
    IN  /\ y >= 1
        /\ m \in 1..12
        /\ dd >= 1 /\ dd <= DaysInMonth(y, m)
        /\ hh <= 23 /\ mi <= 59 /\ ss <= 59

\* re.search(demographic_data_(\d{8})_(\d{6})\.json) finds the pattern
\* anywhere in the string
SearchMatches(name) ==
    /\ name.prefix \in {"demographic_data_", "old_demographic_data_"}
    /\ name.dlen = 8
    /\ name.tlen = 6
    /\ name.ext \in {".json", ".json.bak"}

\* extract_timestamp: raised is TRUE for ValueError (error is its message:
\* the function's own, or the one of strptime), else value is the datetime
\* as <<YYYYMMDD, HHMMSS>>
extract_timestamp(name) ==
    IF ~SearchMatches(name)
    THEN [raised |-> TRUE, error |-> "Invalid filename format", value |-> <<0, 0>>]
    ELSE IF ~StrptimeOk(name.date, name.time)
    THEN [raised |-> TRUE, error |-> "strptime", value |-> <<0, 0>>]
    ELSE [raised |-> FALSE, error |-> "none", value |-> <<name.date, name.time>>]

\* datetime comparison a < b
StampLess(a, b) == a[1] < b[1] \/ (a[1] = b[1] /\ a[2] < b[2])

RECURSIVE MaxByStamp(_, _)
\* max(files, key=extract_timestamp) over the rest of the list: the first
\* maximal element wins
MaxByStamp(files, best) ==
    IF files = << >> THEN best
    ELSE IF StampLess(extract_timestamp(best).value,
                      extract_timestamp(Head(files)).value)
         THEN MaxByStamp(Tail(files), Head(files))
         ELSE MaxByStamp(Tail(files), best)

\* find_latest_file: none for an empty list; raised when the key function
\* raises for some element
find_latest_file(files) ==
    IF files = << >> THEN [raised |-> FALSE, none |-> TRUE, value |-> NameCatalogue[1]]
    ELSE IF \E i \in 1..Len(files) : extract_timestamp(files[i]).raised
    THEN [raised |-> TRUE, none |-> FALSE, value |-> files[1]]
    ELSE [raised |-> FALSE, none |-> FALSE, value |-> MaxByStamp(Tail(files), files[1])]

\* validate_json_file on the content found at the path (NoFile: open raises)
validate_json_file(c) ==
    /\ c.shape = "list"
    /\ \A i \in 1..Min(ValidationPrefix, Len(c.items)) :
          LET item == c.items[i]
          IN  /\ item.kind \in {"attr", "listattr"}
              /\ item.state.t # "absent"
              /\ item.pop.t # "absent"

\* int(population)
IntOf(pop) == IF pop.t = "float" THEN pop.v \div 10 ELSE pop.v

\* the element makes aggregate_by_state raise
ItemRaises(item) ==
    \/ item.kind \in {"scalar", "nullattr", "listattr"}
    \/ /\ item.kind = "attr"
       /\ item.state.t = "str" /\ item.state.v # ""
       /\ item.pop.t = "nan"

\* the element passes "if state and isinstance(population, (int, float))"
ItemCounts(item) ==
    /\ item.kind = "attr"
    /\ item.state.t = "str" /\ item.state.v # ""
    /\ item.pop.t \in {"absent", "int", "float", "bool"}

DictAdd_LastWins(dict, k, n) ==
    IF \E i \in 1..Len(dict) : dict[i].k = k
    THEN [i \in 1..Len(dict) |->
            IF dict[i].k = k THEN [k |-> k, v |-> n] ELSE dict[i]]
    ELSE Append(dict, [k |-> k, v |-> n])

\* state_populations[state] = state_populations.get(state, 0) + n on an
\* insertion-ordered dict kept as a sequence of [k, v]
DictAdd(dict, k, n) ==
    IF \E i \in 1..Len(dict) : dict[i].k = k
    THEN [i \in 1..Len(dict) |->
            IF dict[i].k = k THEN [k |-> k, v |-> dict[i].v + n] ELSE dict[i]]
    ELSE Append(dict, [k |-> k, v |-> n])

RECURSIVE AggregateFrom(_, _)
AggregateFrom(items, dict) ==
    IF items = << >> THEN dict
    ELSE LET item == Head(items)
         IN  IF ItemCounts(item)
             THEN AggregateFrom(Tail(items), DictAdd(dict, item.state.v, IntOf(item.pop)))
             ELSE AggregateFrom(Tail(items), dict)

\* aggregate_by_state: raised when some element raises, else the dict
aggregate_by_state(data) ==
    IF \E i \in 1..Len(data) : ItemRaises(data[i])
    THEN [raised |-> TRUE, value |-> << >>]
    ELSE [raised |-> FALSE, value |-> AggregateFrom(data, << >>)]

DictKeys(dict) == { dict[i].k : i \in 1..Len(dict) }
DictGet(dict, k) == dict[CHOOSE i \in 1..Len(dict) : dict[i].k = k].v

(***************************************************************************)
(* State.                                                                  *)
(***************************************************************************)
VARIABLES
    staging,          \* data_dir: name -> content, NoFile when absent
    processed,        \* data_dir/processed
    error,            \* data_dir/error
    db,               \* committed rows of state_populations
    conn,             \* the open sqlite3 connection of update_database
    log,              \* entries the current run appended to the monthly log
    clock,            \* datetime.now() as a logical time
    pc,               \* position of the process_all_data run
    files,            \* locals of process_all_data
    valid_files,
    error_files,
    latest_file,
    aggregated_data,
    timestamp,        \* local of update_database
    updated_states,
    archiving,        \* files archive_files still has to move: [dir, name]
    result,           \* outcome seen by the caller of process_all_data
    runs,             \* runs started
    faults,           \* faults injected
    hist,             \* history of the current run (not program state)
    past,             \* history across runs (not program state)
    enabled,          \* Config.SCHEDULER_ENABLED.lower() == 'true'
    state,            \* BackgroundScheduler.state: "stopped" or "running"
    pending_jobs,     \* ids of the jobs waiting for the scheduler to start
    jobstore,         \* ids of the jobs in the (memory) job store
    next_run_time,    \* job id -> the Job's next_run_time attribute
    start_date,       \* job id -> start_date of the job's IntervalTrigger
    instances,        \* job id -> executions of the job in progress
    now,              \* wall clock, in seconds
    shutting,         \* shutdown() is waiting for the executions in flight
    call,             \* the last step and what it returned (not program state)
    fn,               \* the function of DataProcessor last applied on its own
    arg,              \* its argument
    ret,              \* what it returned
    table,            \* committed rows of state_populations shared by the
                      \* concurrent invocations of update_database
    lock,             \* the invocation holding the write lock of the database
                      \* file, 0 when it is free
    tx,               \* invocation -> its position, arguments and transaction
    order,            \* the invocations in the order of their commits (not
                      \* program state)
    connects,         \* invocations that have connected so far
    held,             \* the call of a control operation that has looked its
                      \* job up and has not acted yet
    work,             \* per job, what the executions of its bound action did
    resume,           \* the cycle the process was killed in while archiving:
                      \* its batch, its moves so far and the store it left
    writing           \* the snapshot file the fetcher has open for writing

sched_vars == << enabled, state, pending_jobs, jobstore, next_run_time,
                 start_date, instances, now, shutting, call >>

pipeline_vars == << staging, processed, error, db, conn, log, clock, pc, files,
           valid_files, error_files, latest_file, aggregated_data, timestamp,
           updated_states, archiving, result, runs, faults, hist, past >>

pure_vars == << fn, arg, ret >>

store_vars == << table, lock, tx, order, connects >>

\* the variables of the parts that stand aside while the pipeline or the
\* scheduler takes a step
aside_vars == << pure_vars, store_vars, held, work, resume, writing >>

vars == << pipeline_vars, sched_vars, pure_vars, store_vars, held, work,
           resume, writing >>

dirs == << staging, processed, error >>
locals == << files, valid_files, error_files, latest_file, aggregated_data,
             timestamp, updated_states, archiving >>

Row(k, p, t, src) ==
    [state_name |-> k, total_population |-> p, last_updated |-> t,
     source_file |-> src]

Closed == [open |-> FALSE, rows |-> {}]

\* what the run has done so far: the store and the archived names when it
\* began, whether it has scanned the staging directory, the names whose
\* move failed, whether update_database failed or
\* committed (and whether it had written some key when it failed or the
\* process stopped), whether it committed the arguments of the previous
\* committed call, whether any fault hit the run, where the process stopped
NewHist ==
    [dbBefore |-> db,
     archivedBefore |-> { n \in Names : processed[n] # NoFile \/ error[n] # NoFile },
     discovered |-> FALSE, moveFailed |-> {},
     persistFailed |-> FALSE, committed |-> FALSE, partial |-> FALSE,
     repeated |-> FALSE, faulted |-> FALSE, stoppedAt |-> "none"]

\* the arguments of the last update_database that committed, and how many
\* committed invocations had each file as their source
NoCall == [called |-> FALSE, agg |-> << >>, src |-> NameCatalogue[1]]
Call(agg, src) == [called |-> TRUE, agg |-> agg, src |-> src]

(***************************************************************************)
(* DemographicsScheduler: the state of its BackgroundScheduler.  Jobs      *)
(* added before the scheduler starts wait in its list of pending jobs;     *)
(* start() moves them to the job store.  A Job has a next_run_time         *)
(* attribute only once it has been scheduled or modified; a paused job is  *)
(* a job whose next_run_time is None.                                      *)
(***************************************************************************)
\* how many steps of the clock a behaviour takes
MaxTicks == 3

SCHEDULER_FETCH_INTERVAL == 86400
SCHEDULER_PROCESS_INTERVAL == 86400

JobIds == {"fetch_data", "process_data"}
UnknownId == "nonexistent_job"
NoId == ""
Ids == JobIds \cup {UnknownId}

Interval(j) ==
    IF j = "fetch_data" THEN SCHEDULER_FETCH_INTERVAL
                        ELSE SCHEDULER_PROCESS_INTERVAL

\* the clock advances by half of the shorter interval
ClockStep == Min(SCHEDULER_FETCH_INTERVAL, SCHEDULER_PROCESS_INTERVAL) \div 2

\* values of Job.next_run_time: the attribute is not set, is None, or a time
NotSet == [set |-> FALSE, timed |-> FALSE, t |-> 0]
NoRunTime == [set |-> TRUE, timed |-> FALSE, t |-> 0]
RunAt(t) == [set |-> TRUE, timed |-> TRUE, t |-> t]

CeilDiv(a, b) == (a + b - 1) \div b

\* IntervalTrigger.get_next_fire_time(previous_fire_time, now)
get_next_fire_time(j, previous, t) ==
    IF previous.timed THEN previous.t + Interval(j)
    ELSE IF start_date[j] > t THEN start_date[j]
    ELSE start_date[j] + Interval(j) * CeilDiv(t - start_date[j], Interval(j))

\* the last of Job._get_run_times(now): the fire times from next_run_time
\* on, one interval apart, that are not after now
LastRunTime(j, t) ==
    LET first == next_run_time[j].t
    IN  first + Interval(j) * ((t - first) \div Interval(j))

\* what a step reports to its caller
NoReport ==
    [total_jobs |-> 0, running_jobs |-> 0, paused_jobs |-> 0,
     executing_jobs |-> 0, jobs |-> << >>]
Step(op, id) ==
    [op |-> op, job_id |-> id, raised |-> "none", status |-> "none",
     auto_resumed |-> FALSE, next_run_time |-> NotSet, report |-> NoReport]
Raised(op, id, exc) == [Step(op, id) EXCEPT !.raised = exc]

\* __init__ at time t: BackgroundScheduler() and _setup_jobs; the trigger
\* of each job starts one interval after its construction
Constructed(e, t) ==
    /\ enabled = e
    /\ state = "stopped"
    /\ pending_jobs = JobIds
    /\ jobstore = {}
    /\ next_run_time = [j \in JobIds |-> NotSet]
    /\ start_date = [j \in JobIds |-> t + Interval(j)]
    /\ instances = [j \in JobIds |-> 0]
    /\ now = t
    /\ shutting = FALSE
    /\ call = Step("__init__", NoId)

\* DataProcessor constructed over empty directories and an empty store;
\* spent is the part of the fault budget that is already used
PipelineStart(spent) ==
    /\ staging = [n \in Names |-> NoFile]
    /\ processed = [n \in Names |-> NoFile]
    /\ error = [n \in Names |-> NoFile]
    /\ db = {}
    /\ conn = Closed
    /\ log = << >>
    /\ clock = 1
    /\ pc = "idle"
    /\ files = << >>
    /\ valid_files = << >>
    /\ error_files = << >>
    /\ latest_file = NameCatalogue[1]
    /\ aggregated_data = << >>
    /\ timestamp = 0
    /\ updated_states = 0
    /\ archiving = << >>
    /\ result = "none"
    /\ runs = 0
    /\ faults = spent
    /\ hist = NewHist
    /\ past = [lastCommit |-> NoCall, aggregatedBy |-> [n \in Names |-> 0]]

\* the state after construction: empty directories and store, no fault yet
PipelineInit == PipelineStart(0)

\* the argument of an application: the feature list of aggregate_by_state,
\* the content of the file of validate_json_file, the candidates of
\* find_latest_file, the name of extract_timestamp, the directory entries
\* find_demographic_files looks at
NoArg ==
    [data |-> << >>, content |-> NoFile, files |-> << >>,
     name |-> NameCatalogue[1], listing |-> {}]

\* what it returned: whether it raised and with which message, the dict of
\* aggregate_by_state, the verdict of validate_json_file, the file of
\* find_latest_file (none: None), the datetime of extract_timestamp, the
\* names find_demographic_files found
NoRet ==
    [raised |-> FALSE, error |-> "none", dict |-> << >>, valid |-> FALSE,
     none |-> FALSE, file |-> NameCatalogue[1], stamp |-> <<0, 0>>,
     found |-> {}]

\* concurrent invocations of update_database on one database file
MaxInvocations == 2
Invocations == 1..MaxInvocations

NoTx ==
    [pc |-> "idle", agg |-> << >>, src |-> NameCatalogue[1], timestamp |-> 0,
     updated_states |-> 0, rows |-> {}]

\* no invocation of update_database is in progress on its own
NoInvocation ==
    /\ table = {}
    /\ lock = 0
    /\ tx = [i \in Invocations |-> NoTx]
    /\ order = << >>
    /\ connects = 0

\* the fetcher has no file open
NoWriting == [open |-> FALSE, name |-> NameCatalogue[1], content |-> NoFile]

\* the process has not been killed while archiving
NoResume == [interrupted |-> FALSE, run |-> 0, moved |-> 0, batch |-> {},
             db |-> {}]

\* no execution of the job's bound action has ended
NoWork == [runs |-> 0, fetches |-> 0, cycles |-> 0, outcome |-> "none"]

\* no control operation is between its lookup and its action
NoHeld == [op |-> "none", job_id |-> ""]

\* no function has been applied on its own
NotApplied ==
    /\ fn = "none"
    /\ arg = NoArg
    /\ ret = NoRet
    /\ NoInvocation
    /\ held = NoHeld
    /\ work = [j \in JobIds |-> NoWork]
    /\ resume = NoResume
    /\ writing = NoWriting

Init ==
    /\ PipelineInit
    /\ Constructed(TRUE, 0)
    /\ NotApplied

Running == pc \notin {"idle", "done", "raised", "stopped"}

(***************************************************************************)
(* log_processing: the entry is appended, or the write fails (open or      *)
(* write raises) and the exception reaches the try block of                *)
(* process_all_data.  h is the history after the step.                     *)
(***************************************************************************)
Faulted(h) == [h EXCEPT !.faulted = TRUE]

log_processing(tag, next, h) ==
    \/ /\ log' = Append(log, tag)
       /\ pc' = next
       /\ hist' = h
       /\ UNCHANGED faults
    \/ /\ faults < MaxFaults
       /\ faults' = faults + 1
       /\ pc' = "handler"
       /\ hist' = Faulted(h)
       /\ UNCHANGED log

Discovered(h) == [h EXCEPT !.discovered = TRUE]

\* log_processing(tag) followed by "return res"
LogAndReturn(tag, res, h) ==
    \/ /\ log' = Append(log, tag)
       /\ pc' = "done"
       /\ result' = res
       /\ hist' = h
       /\ UNCHANGED faults
    \/ /\ faults < MaxFaults
       /\ faults' = faults + 1
       /\ pc' = "handler"
       /\ hist' = Faulted(h)
       /\ UNCHANGED << log, result >>

(***************************************************************************)
(* The external fetch collaborator writes a snapshot into the staging      *)
(* directory.  Its names carry the time of the fetch, so a name is staged  *)
(* once.                                                                   *)
(***************************************************************************)
Known(n) == staging[n] # NoFile \/ processed[n] # NoFile \/ error[n] # NoFile

Stage(n, c) ==
    /\ ~Known(n)
    /\ Cardinality({ m \in Names : Known(m) }) < MaxFiles
    /\ staging' = [staging EXCEPT ![n] = c]
    /\ UNCHANGED << processed, error, db, conn, log, clock, pc, locals,
                    result, runs, faults, hist, past >>
    /\ UNCHANGED << sched_vars, aside_vars >>

(***************************************************************************)
(* process_all_data                                                        *)
(***************************************************************************)
\* the call, and log_processing("PROCESSING_START")
Begin ==
    /\ ~Running
    /\ runs < MaxRuns
    /\ runs' = runs + 1
    /\ result' = "none"
    /\ files' = << >>
    /\ valid_files' = << >>
    /\ error_files' = << >>
    /\ aggregated_data' = << >>
    /\ updated_states' = 0
    /\ archiving' = << >>
    /\ latest_file' = NameCatalogue[1]
    /\ timestamp' = 0
    /\ \/ /\ log' = << "PROCESSING_START" >>
          /\ pc' = "discover"
          /\ hist' = NewHist
          /\ UNCHANGED faults
       \/ /\ faults < MaxFaults
          /\ faults' = faults + 1
          /\ log' = << >>
          /\ pc' = "handler"
          /\ hist' = Faulted(NewHist)
    /\ UNCHANGED << dirs, db, conn, clock, past >>
    /\ UNCHANGED << sched_vars, aside_vars >>

\* the lists a directory scan may return for a set of names
Orders(S) ==
    { s \in [1..Cardinality(S) -> S] :
        \A i, j \in 1..Cardinality(S) : i # j => s[i] # s[j] }

\* a pattern that also descends into processed/ and error/
Globbed_Recursive(n) == Known(n)

\* glob.glob(os.path.join(self.data_dir, pattern)): the entries of the
\* staging directory itself
Globbed(n) == staging[n] # NoFile

\* find_demographic_files
find_demographic_files ==
    Orders({ n \in Names : Globbed(n) /\ MatchesDiscovery(n) })

\* files = find_demographic_files(); NO_FILES and return False, or FILES_FOUND
Discover ==
    /\ pc = "discover"
    /\ \E found \in find_demographic_files :
          /\ files' = found
          /\ IF found = << >>
             THEN LogAndReturn("NO_FILES", "false", Discovered(hist))
             ELSE /\ log_processing("FILES_FOUND", "validate", Discovered(hist))
                  /\ UNCHANGED result
    /\ UNCHANGED << dirs, db, conn, clock, valid_files, error_files,
                    latest_file, aggregated_data, timestamp, updated_states,
                    archiving, runs, past >>
    /\ UNCHANGED << sched_vars, aside_vars >>

Validated == Len(valid_files) + Len(error_files)

\* one iteration of the validation loop
ValidateNext ==
    /\ pc = "validate"
    /\ Validated < Len(files)
    /\ LET f == files[Validated + 1]
       IN  IF validate_json_file(staging[f])
           THEN /\ valid_files' = Append(valid_files, f)
                /\ UNCHANGED << error_files, log, pc, hist, faults >>
           ELSE /\ error_files' = Append(error_files, f)
                /\ log_processing("VALIDATION_ERROR", "validate", hist)
                /\ UNCHANGED valid_files
    /\ UNCHANGED << dirs, db, conn, clock, files, latest_file,
                    aggregated_data, timestamp, updated_states, archiving,
                    result, runs, past >>
    /\ UNCHANGED << sched_vars, aside_vars >>

\* the targets of archive_files
ProcessedDir == "processed"

\* error files archived with the processed ones
ErrorDir_Processed == "processed"

ErrorDir == "error"

\* only the first file of the list is archived
MoveList_OnlyFirst(dir, names) ==
    [i \in 1..Min(1, Len(names)) |-> [dir |-> dir, name |-> names[i]]]

\* archive_files walks its list front to back
MoveList(dir, names) == [i \in 1..Len(names) |-> [dir |-> dir, name |-> names[i]]]

\* if not valid_files: NO_VALID_FILES, archive_files([], error_files)
NoValidFiles ==
    /\ pc = "validate"
    /\ Validated = Len(files)
    /\ valid_files = << >>
    /\ archiving' = MoveList(ErrorDir, error_files)
    /\ log_processing("NO_VALID_FILES", "archive", hist)
    /\ UNCHANGED << dirs, db, conn, clock, files, valid_files, error_files,
                    latest_file, aggregated_data, timestamp, updated_states,
                    result, runs, past >>
    /\ UNCHANGED << sched_vars, aside_vars >>

\* latest_file = find_latest_file(valid_files); LATEST_FILE
SelectLatest ==
    /\ pc = "validate"
    /\ Validated = Len(files)
    /\ valid_files # << >>
    /\ LET r == find_latest_file(valid_files)
       IN  IF r.raised
           THEN /\ pc' = "handler"
                /\ UNCHANGED << latest_file, log, hist, faults >>
           ELSE /\ latest_file' = r.value
                /\ log_processing("LATEST_FILE", "read", hist)
    /\ UNCHANGED << dirs, db, conn, clock, files, valid_files, error_files,
                    aggregated_data, timestamp, updated_states, archiving,
                    result, runs, past >>
    /\ UNCHANGED << sched_vars, aside_vars >>

\* json.load(latest_file), aggregate_by_state, and the entry of
\* update_database: timestamp = now, sqlite3.connect
ReadAndAggregate ==
    /\ pc = "read"
    /\ LET c == staging[latest_file]
           a == aggregate_by_state(c.items)
       IN  IF c.shape # "list" \/ a.raised
           THEN /\ pc' = "handler"
                /\ UNCHANGED << aggregated_data, timestamp, clock, conn,
                                updated_states >>
           ELSE /\ aggregated_data' = a.value
                /\ timestamp' = clock
                /\ clock' = clock + 1
                /\ updated_states' = 0
                /\ conn' = [open |-> TRUE, rows |-> db]
                /\ pc' = "persist"
    /\ UNCHANGED << dirs, db, log, files, valid_files, error_files,
                    latest_file, archiving, result, runs, faults, hist, past >>
    /\ UNCHANGED << sched_vars, aside_vars >>

\* a plain INSERT into a table without the primary key
InsertOrReplace_Append(rows, row) == rows \cup {row}

\* an update that adds the new population to the stored one
InsertOrReplace_Accumulate(rows, row) ==
    { r \in rows : r.state_name # row.state_name }
    \cup { [row EXCEPT !.total_population =
                IF \E r \in rows : r.state_name = row.state_name
                THEN (CHOOSE r \in rows : r.state_name = row.state_name).total_population + @
                ELSE @] }

\* INSERT OR REPLACE on the primary key state_name
InsertOrReplace(rows, row) ==
    { r \in rows : r.state_name # row.state_name } \cup {row}

\* one iteration of the loop of update_database
PersistWrite ==
    /\ pc = "persist"
    /\ updated_states < Len(aggregated_data)
    /\ LET e == aggregated_data[updated_states + 1]
       IN  conn' = [conn EXCEPT !.rows =
                      InsertOrReplace(conn.rows,
                                      Row(e.k, e.v, timestamp, latest_file))]
    /\ updated_states' = updated_states + 1
    /\ UNCHANGED << dirs, db, log, clock, pc, files, valid_files,
                    error_files, latest_file, aggregated_data, timestamp,
                    archiving, result, runs, faults, hist, past >>
    /\ UNCHANGED << sched_vars, aside_vars >>

\* what conn.commit() makes visible
Commit(committedRows, connRows) == connRows

\* conn.commit(), return updated_states, and the entry of
\* archive_files(valid_files, error_files)
PersistCommit ==
    /\ pc = "persist"
    /\ updated_states = Len(aggregated_data)
    /\ db' = Commit(db, conn.rows)
    /\ conn' = Closed
    /\ past' = [lastCommit |-> Call(aggregated_data, latest_file),
                aggregatedBy |-> [past.aggregatedBy EXCEPT ![latest_file] = @ + 1]]
    /\ archiving' = MoveList(ProcessedDir, valid_files)
                    \o MoveList(ErrorDir, error_files)
    /\ pc' = "archive"
    /\ hist' = [hist EXCEPT !.committed = TRUE,
                            !.repeated = (past.lastCommit
                                          = Call(aggregated_data, latest_file))]
    /\ UNCHANGED << dirs, log, clock, files, valid_files, error_files,
                    latest_file, aggregated_data, timestamp, updated_states,
                    result, runs, faults >>
    /\ UNCHANGED << sched_vars, aside_vars >>

\* the writes made before the exception are kept
Rollback_Keep(committedRows, connRows) == connRows

\* what the connection's context manager leaves in the table when the block
\* is left by an exception: conn.rollback()
Rollback(committedRows, connRows) == committedRows

\* a statement of update_database raises (sqlite3.Error, OverflowError)
PersistFail ==
    /\ pc = "persist"
    /\ faults < MaxFaults
    /\ faults' = faults + 1
    /\ db' = Rollback(db, conn.rows)
    /\ conn' = Closed
    /\ pc' = "handler"
    /\ hist' = [hist EXCEPT !.persistFailed = TRUE, !.faulted = TRUE,
                            !.partial = (updated_states > 0)]
    /\ UNCHANGED << dirs, log, clock, locals, result, runs, past >>
    /\ UNCHANGED << sched_vars, aside_vars >>

\* a copy instead of a move
RemoveSource_Copy(dir, name) == dir

\* shutil.move takes the file out of the source directory
RemoveSource(dir, name) == [dir EXCEPT ![name] = NoFile]

\* shutil.move(file_path, data_dir / dir / filename) of the next file; a
\* failed move (a missing source included) is logged and the loop goes on,
\* unless that log write fails too
ArchiveMove ==
    /\ pc = "archive"
    /\ archiving # << >>
    /\ LET m == Head(archiving)
           c == staging[m.name]
           failed == [hist EXCEPT !.faulted = TRUE,
                                  !.moveFailed = @ \cup {m.name}]
           cost == IF c = NoFile THEN 0 ELSE 1
       IN  \/ /\ c # NoFile
              /\ staging' = RemoveSource(staging, m.name)
              /\ IF m.dir = ProcessedDir
                 THEN /\ processed' = [processed EXCEPT ![m.name] = c]
                      /\ UNCHANGED error
                 ELSE /\ error' = [error EXCEPT ![m.name] = c]
                      /\ UNCHANGED processed
              /\ archiving' = Tail(archiving)
              /\ UNCHANGED << log, pc, faults, hist >>
           \/ /\ faults + cost <= MaxFaults
              /\ log' = Append(log, "ERROR_MOVING")
              /\ faults' = faults + cost
              /\ archiving' = Tail(archiving)
              /\ hist' = failed
              /\ UNCHANGED << pc, dirs >>
           \/ /\ faults + cost + 1 <= MaxFaults
              /\ faults' = faults + cost + 1
              /\ pc' = "handler"
              /\ hist' = failed
              /\ UNCHANGED << log, archiving, dirs >>
    /\ UNCHANGED << db, conn, clock, files, valid_files, error_files,
                    latest_file, aggregated_data, timestamp, updated_states,
                    result, runs, past >>
    /\ UNCHANGED << sched_vars, aside_vars >>

\* archive_files([], error_files) returned: return False
ReturnNoValid ==
    /\ pc = "archive"
    /\ archiving = << >>
    /\ valid_files = << >>
    /\ pc' = "done"
    /\ result' = "false"
    /\ UNCHANGED << dirs, db, conn, log, clock, locals, runs, faults, hist,
                    past >>
    /\ UNCHANGED << sched_vars, aside_vars >>

\* the report without its DATABASE_UPDATE entry
ReportTags_NoUpdate ==
    << "FILES_ARCHIVED" >>
    \o (IF error_files # << >> THEN << "ERROR_FILES" >> ELSE << >>)
    \o << "PROCESSING_SUCCESS" >>

ReportTags ==
    << "DATABASE_UPDATE", "FILES_ARCHIVED" >>
    \o (IF error_files # << >> THEN << "ERROR_FILES" >> ELSE << >>)
    \o << "PROCESSING_SUCCESS" >>

\* DATABASE_UPDATE, FILES_ARCHIVED, ERROR_FILES, PROCESSING_SUCCESS and
\* return True; a failed write leaves the entries before it
Report ==
    /\ pc = "archive"
    /\ archiving = << >>
    /\ valid_files # << >>
    /\ \/ /\ log' = log \o ReportTags
          /\ pc' = "done"
          /\ result' = "true"
          /\ UNCHANGED << faults, hist >>
       \/ /\ faults < MaxFaults
          /\ faults' = faults + 1
          /\ \E k \in 0..(Len(ReportTags) - 1) :
                log' = log \o SubSeq(ReportTags, 1, k)
          /\ pc' = "handler"
          /\ hist' = Faulted(hist)
          /\ UNCHANGED result
    /\ UNCHANGED << dirs, db, conn, clock, locals, runs, past >>
    /\ UNCHANGED << sched_vars, aside_vars >>

\* except Exception: log_processing("PROCESSING_ERROR"), return False; an
\* exception raised by that log_processing leaves process_all_data
Handler ==
    /\ pc = "handler"
    /\ \/ /\ log' = Append(log, "PROCESSING_ERROR")
          /\ pc' = "done"
          /\ result' = "false"
          /\ UNCHANGED << faults, hist >>
       \/ /\ faults < MaxFaults
          /\ faults' = faults + 1
          /\ pc' = "raised"
          /\ result' = "raised"
          /\ hist' = Faulted(hist)
          /\ UNCHANGED log
    /\ UNCHANGED << dirs, db, conn, clock, locals, runs, past >>
    /\ UNCHANGED << sched_vars, aside_vars >>

\* the process stops in the middle of a run: an uncommitted transaction is
\* lost with the connection
Stop ==
    /\ Running
    /\ faults < MaxFaults
    /\ faults' = faults + 1
    /\ conn' = Closed
    /\ pc' = "stopped"
    /\ hist' = [hist EXCEPT !.stoppedAt = pc, !.faulted = TRUE,
                            !.partial = (conn.open /\ updated_states > 0)]
    /\ UNCHANGED << dirs, db, log, clock, locals, result, runs, past >>
    /\ UNCHANGED << sched_vars, aside_vars >>

Next ==
    \/ \E n \in Names, c \in Contents : Stage(n, c)
    \/ Begin
    \/ Discover
    \/ ValidateNext
    \/ NoValidFiles
    \/ SelectLatest
    \/ ReadAndAggregate
    \/ PersistWrite
    \/ PersistCommit
    \/ PersistFail
    \/ ArchiveMove
    \/ ReturnNoValid
    \/ Report
    \/ Handler
    \/ Stop

Spec == Init /\ [][Next]_vars

(***************************************************************************)
(* DemographicsScheduler.  Every operation looks its job up through the    *)
(* scheduler, which holds the job-store lock; shutdown(wait=True) keeps    *)
(* that lock while it waits, so the operations are steps that do not       *)
(* happen during the wait.                                                 *)
(***************************************************************************)
\* BaseScheduler.get_jobs(): the pending jobs of a stopped scheduler, the
\* jobs of the store otherwise
get_jobs == IF state = "stopped" THEN pending_jobs ELSE jobstore

\* BaseScheduler.get_job(id) finds the job
get_job(id) == id \in get_jobs

\* Job.pending: the job has not been added to a job store yet
pending(j) == j \in pending_jobs

\* hasattr(job, attr): pending is a property of Job, next_run_time exists
\* once set, and Job has no attribute named executing
hasattr(j, attr) ==
    CASE attr = "pending" -> TRUE
      [] attr = "next_run_time" -> next_run_time[j].set
      [] OTHER -> FALSE

\* a job without next_run_time gets a status of its own
job_status_Unknown(j) ==
    IF hasattr(j, "pending") /\ pending(j) THEN "paused"
    ELSE IF hasattr(j, "executing") /\ instances[j] > 0 THEN "executing"
    ELSE IF next_run_time[j].timed THEN "running"
    ELSE "unscheduled"

\* the status get_job_status and get_job_details derive from the attributes
job_status(j) ==
    IF hasattr(j, "pending") /\ pending(j) THEN "paused"
    ELSE IF hasattr(j, "executing") /\ instances[j] > 0 THEN "executing"
    ELSE "running"

\* the name given to add_job
JobName(j) ==
    IF j = "fetch_data" THEN "Fetch ArcGIS demographic data (daily)"
                        ELSE "Process demographic data (daily)"

job_info(j) ==
    [id |-> j,
     name |-> JobName(j),
     status |-> job_status(j),
     next_run_time |-> IF hasattr(j, "next_run_time") /\ next_run_time[j].timed
                       THEN next_run_time[j] ELSE NoRunTime,
     trigger |-> Interval(j),
     trigger_type |-> "IntervalTrigger",
     pending |-> pending(j),
     executing |-> FALSE]

Count(infos, status) ==
    Cardinality({ i \in 1..Len(infos) : infos[i].status = status })

\* the jobs a query lists, in the order of their ids
Listed(q) ==
    LET found == IF q # NoId THEN (IF get_job(q) THEN {q} ELSE {})
                             ELSE get_jobs
    IN  IF found = JobIds THEN << "fetch_data", "process_data" >>
        ELSE IF found = {} THEN << >>
        ELSE << CHOOSE j \in found : TRUE >>

get_job_status(q) ==
    LET jobs == Listed(q)
        infos == [i \in 1..Len(jobs) |-> job_info(jobs[i])]
    IN  [total_jobs |-> Len(jobs),
         running_jobs |-> Count(infos, "running"),
         paused_jobs |-> Count(infos, "paused"),
         executing_jobs |-> Count(infos, "executing"),
         jobs |-> infos]

sched_state == << enabled, state, pending_jobs, jobstore, next_run_time,
                  start_date, instances, now, shutting >>

GetJobStatus(q) ==
    /\ ~shutting
    /\ call' = [Step("get_job_status", q) EXCEPT !.report = get_job_status(q)]
    /\ UNCHANGED << sched_state, pipeline_vars, aside_vars >>

\* the operation goes on without the job
JobNotFound_Swallowed(op, id) ==
    /\ ~get_job(id)
    /\ call' = Step(op, id)
    /\ UNCHANGED << sched_state, pipeline_vars, aside_vars >>

\* raise ValueError(f"Job '{job_id}' not found"), logged and raised again
JobNotFound(op, id) ==
    /\ ~get_job(id)
    /\ call' = Raised(op, id, "ValueError")
    /\ UNCHANGED << sched_state, pipeline_vars, aside_vars >>

\* a job without a next run time is reported as paused
details_status_Paused(j) ==
    IF ~next_run_time[j].timed THEN "paused" ELSE "running"

\* the status get_job_details derives, by its own copy of the rules
details_status(j) ==
    IF hasattr(j, "pending") /\ pending(j) THEN "paused"
    ELSE IF hasattr(j, "executing") /\ instances[j] > 0 THEN "executing"
    ELSE "running"

\* the record get_job_details returns for a job it found
get_job_details(j) ==
    [id |-> j,
     name |-> JobName(j),
     status |-> details_status(j),
     next_run_time |-> IF hasattr(j, "next_run_time") /\ next_run_time[j].timed
                       THEN next_run_time[j] ELSE NoRunTime,
     trigger |-> Interval(j),
     trigger_type |-> "IntervalTrigger",
     pending |-> pending(j),
     executing |-> FALSE]

GetJobDetails(id) ==
    /\ ~shutting
    /\ \/ JobNotFound("get_job_details", id)
       \/ /\ get_job(id)
          /\ call' = [Step("get_job_details", id) EXCEPT
                         !.status = get_job_details(id).status,
                         !.next_run_time = get_job_details(id).next_run_time]
          /\ UNCHANGED << sched_state, pipeline_vars, aside_vars >>

\* scheduler.pause_job: modify_job(job_id, next_run_time=None)
PauseJob(id) ==
    /\ ~shutting
    /\ \/ JobNotFound("pause_job", id)
       \/ /\ get_job(id)
          /\ next_run_time' = [next_run_time EXCEPT ![id] = NoRunTime]
          /\ call' = [Step("pause_job", id) EXCEPT !.status = "paused"]
          /\ UNCHANGED << enabled, state, pending_jobs, jobstore, start_date,
                          instances, now, shutting, pipeline_vars, aside_vars >>

\* scheduler.resume_job: the next fire time of the trigger from now on
Resumed(id) == RunAt(get_next_fire_time(id, NotSet, now))

ResumeJob(id) ==
    /\ ~shutting
    /\ \/ JobNotFound("resume_job", id)
       \/ /\ get_job(id)
          /\ next_run_time' = [next_run_time EXCEPT ![id] = Resumed(id)]
          /\ call' = [Step("resume_job", id) EXCEPT !.status = "running"]
          /\ UNCHANGED << enabled, state, pending_jobs, jobstore, start_date,
                          instances, now, shutting, pipeline_vars, aside_vars >>

\* the job is paused instead of removed
RemoveJob_PauseOnly(id) ==
    /\ ~shutting
    /\ \/ JobNotFound("remove_job", id)
       \/ /\ get_job(id)
          /\ next_run_time' = [next_run_time EXCEPT ![id] = NoRunTime]
          /\ call' = [Step("remove_job", id) EXCEPT !.status = "removed"]
          /\ UNCHANGED << enabled, state, pending_jobs, jobstore, start_date,
                          instances, now, shutting, pipeline_vars, aside_vars >>

\* scheduler.remove_job: the job leaves the pending list or the job store
RemoveJob(id) ==
    /\ ~shutting
    /\ \/ JobNotFound("remove_job", id)
       \/ /\ get_job(id)
          /\ pending_jobs' = pending_jobs \ {id}
          /\ jobstore' = jobstore \ {id}
          /\ next_run_time' = [next_run_time EXCEPT ![id] = NotSet]
          /\ call' = [Step("remove_job", id) EXCEPT !.status = "removed"]
          /\ UNCHANGED << enabled, state, start_date, instances, now,
                          shutting, pipeline_vars, aside_vars >>

\* was_paused is what job.pending says; a job found pending is resumed
\* first; then job.modify(next_run_time=datetime.now())
was_paused(id) == hasattr(id, "pending") /\ pending(id)

TriggerJobManually(id) ==
    /\ ~shutting
    /\ \/ JobNotFound("trigger_job_manually", id)
       \/ /\ get_job(id)
          /\ LET resumed == IF was_paused(id)
                             THEN [next_run_time EXCEPT ![id] = Resumed(id)]
                             ELSE next_run_time
             IN  next_run_time' = [resumed EXCEPT ![id] = RunAt(now)]
          /\ call' = [Step("trigger_job_manually", id) EXCEPT
                         !.auto_resumed = was_paused(id)]
          /\ UNCHANGED << enabled, state, pending_jobs, jobstore, start_date,
                          instances, now, shutting, pipeline_vars, aside_vars >>

\* the switch is read as always on
SchedulerEnabled_Always == TRUE

\* Config.SCHEDULER_ENABLED.lower() == 'true'
SchedulerEnabled == enabled

\* BaseScheduler.start() on a scheduler that is not stopped
StartAgain == Raised("start", NoId, "SchedulerAlreadyRunningError")

\* _real_add_job: a pending job without next_run_time gets its first one
Scheduled(j) ==
    IF next_run_time[j].set THEN next_run_time[j]
    ELSE RunAt(get_next_fire_time(j, NotSet, now))

Start ==
    /\ ~shutting
    /\ \/ /\ ~SchedulerEnabled
          /\ call' = Step("start", NoId)
          /\ UNCHANGED << sched_state, pipeline_vars, aside_vars >>
       \/ /\ SchedulerEnabled
          /\ state # "stopped"
          /\ call' = StartAgain
          /\ UNCHANGED << sched_state, pipeline_vars, aside_vars >>
       \/ /\ SchedulerEnabled
          /\ state = "stopped"
          /\ state' = "running"
          /\ jobstore' = jobstore \cup pending_jobs
          /\ pending_jobs' = {}
          /\ next_run_time' = [j \in JobIds |->
                 IF j \in pending_jobs THEN Scheduled(j) ELSE next_run_time[j]]
          /\ call' = Step("start", NoId)
          /\ UNCHANGED << enabled, start_date, instances, now, shutting,
                          pipeline_vars, aside_vars >>

\* shutdown(): a running scheduler stops its timer and waits for the
\* executions in flight; one that is not running only logs
Shutdown ==
    \/ /\ state # "stopped"
       /\ state' = "stopped"
       /\ shutting' = TRUE
       /\ call' = [Step("shutdown", NoId) EXCEPT !.status = "waiting"]
       /\ UNCHANGED << enabled, pending_jobs, jobstore, next_run_time,
                       start_date, instances, now, pipeline_vars, aside_vars >>
    \/ /\ state = "stopped"
       /\ call' = [Step("shutdown", NoId) EXCEPT !.status = "not running"]
       /\ UNCHANGED << sched_state, pipeline_vars, aside_vars >>

\* shutdown(wait=False)
PoolIdle_NoWait == TRUE

\* the executor's pool.shutdown(wait=True) returns when no execution is in
\* flight
PoolIdle == \A j \in JobIds : instances[j] = 0

\* the wait is over: the job store is emptied and shutdown() returns
ShutdownReturn ==
    /\ shutting
    /\ PoolIdle
    /\ shutting' = FALSE
    /\ jobstore' = {}
    /\ next_run_time' = [j \in JobIds |-> NotSet]
    /\ call' = [Step("shutdown", NoId) EXCEPT !.status = "completed"]
    /\ UNCHANGED << enabled, state, pending_jobs, start_date, instances, now,
                    pipeline_vars, aside_vars >>

\* every job of the store is taken as due
Due_Paused(j) == j \in jobstore

\* get_due_jobs(now): the jobs of the store whose next_run_time has come
Due(j) ==
    /\ j \in jobstore
    /\ next_run_time[j].timed
    /\ next_run_time[j].t <= now

\* no limit on the executions of a job
Submittable_Overlap(j) == TRUE

\* submit_job refuses a job that has max_instances (one) executions running
Submittable(j) == instances[j] < 1

\* the timer thread (_process_jobs): a due job is submitted to the
\* executor, which starts _fetch_data_job or _process_data_job unless the
\* job is still executing, and its next_run_time moves past now
ProcessJobs(j) ==
    /\ state = "running"
    /\ Due(j)
    /\ \/ /\ Submittable(j)
          /\ instances' = [instances EXCEPT ![j] = @ + 1]
          /\ call' = Step("run", j)
       \/ /\ ~Submittable(j)
          /\ call' = Step("skip", j)
          /\ UNCHANGED instances
    /\ next_run_time' = [next_run_time EXCEPT
           ![j] = RunAt(get_next_fire_time(j, RunAt(LastRunTime(j, now)), now))]
    /\ UNCHANGED << enabled, state, pending_jobs, jobstore, start_date, now,
                    shutting, pipeline_vars, aside_vars >>

\* _fetch_data_job or _process_data_job returns
JobDone(j) ==
    /\ instances[j] > 0
    /\ instances' = [instances EXCEPT ![j] = @ - 1]
    /\ call' = Step("done", j)
    /\ UNCHANGED << enabled, state, pending_jobs, jobstore, next_run_time,
                    start_date, now, shutting, pipeline_vars, aside_vars >>

Tick ==
    /\ now < MaxTicks * ClockStep
    /\ now' = now + ClockStep
    /\ call' = Step("tick", NoId)
    /\ UNCHANGED << enabled, state, pending_jobs, jobstore, next_run_time,
                    start_date, instances, shutting, pipeline_vars, aside_vars >>

\* the process is restarted: a new DemographicsScheduler is constructed
Construct ==
    /\ state' = "stopped"
    /\ pending_jobs' = JobIds
    /\ jobstore' = {}
    /\ next_run_time' = [j \in JobIds |-> NotSet]
    /\ start_date' = [j \in JobIds |-> now + Interval(j)]
    /\ instances' = [j \in JobIds |-> 0]
    /\ shutting' = FALSE
    /\ call' = Step("__init__", NoId)
    /\ UNCHANGED << enabled, now, pipeline_vars, aside_vars >>

SchedInit ==
    /\ PipelineInit
    /\ \E e \in BOOLEAN : Constructed(e, 0)
    /\ NotApplied

SchedNext ==
    \/ Construct
    \/ Start
    \/ Shutdown
    \/ ShutdownReturn
    \/ \E q \in Ids \cup {NoId} : GetJobStatus(q)
    \/ \E id \in Ids : GetJobDetails(id)
    \/ \E id \in Ids : PauseJob(id)
    \/ \E id \in Ids : ResumeJob(id)
    \/ \E id \in Ids : RemoveJob(id)
    \/ \E id \in Ids : TriggerJobManually(id)
    \/ \E j \in JobIds : ProcessJobs(j)
    \/ \E j \in JobIds : JobDone(j)
    \/ Tick

SchedSpec == SchedInit /\ [][SchedNext]_vars

(***************************************************************************)
(* Vocabulary of the properties.                                           *)
(***************************************************************************)
\* the content of a snapshot, wherever it lies
ContentOf(n) ==
    IF staging[n] # NoFile THEN staging[n]
    ELSE IF processed[n] # NoFile THEN processed[n] ELSE error[n]

\* the files the run discovered, and the valid ones among them
Batch == { files[i] : i \in 1..Len(files) }
ValidBatch == { n \in Batch : validate_json_file(ContentOf(n)) }

\* the digits embedded in a name
Stamp(n) == << n.date, n.time >>

\* the valid file of the batch with the latest embedded timestamp
LatestValid ==
    CHOOSE n \in ValidBatch : \A m \in ValidBatch : ~StampLess(Stamp(n), Stamp(m))

CallEnded == pc \in {"done", "raised"}

RowsOf(rows, k) == { r \in rows : r.state_name = k }

\* the rows without their last_updated column
Projection(rows) ==
    { << r.state_name, r.total_population, r.source_file >> : r \in rows }

InStagingOnly(n) ==
    staging[n] # NoFile /\ processed[n] = NoFile /\ error[n] = NoFile

(***************************************************************************)
(* C1 (as stated): after a run without I/O fault over a batch with at      *)
(* least one valid file, the run has returned true and each key of the     *)
(* aggregation of the latest valid file has a row with that file's sum and *)
(* name; every row the run changed comes from that file.                   *)
(***************************************************************************)
C1_LatestValidFileWins ==
    (CallEnded /\ ~hist.faulted /\ ValidBatch # {}) =>
        /\ result = "true"
        /\ LET agg == aggregate_by_state(ContentOf(LatestValid).items)
           IN  /\ ~agg.raised
               /\ \A k \in DictKeys(agg.value) :
                     \E r \in db : /\ r.state_name = k
                                   /\ r.total_population = DictGet(agg.value, k)
                                   /\ r.source_file = LatestValid
               /\ \A r \in db \ hist.dbBefore :
                     /\ r.source_file = LatestValid
                     /\ r.state_name \in DictKeys(agg.value)
                     /\ r.total_population = DictGet(agg.value, r.state_name)

(***************************************************************************)
(* C2 (as stated): when the run has returned true, every file of the batch *)
(* has left staging, the valid ones for processed/, the invalid ones for   *)
(* error/.                                                                 *)
(***************************************************************************)
ArchivedByValidity(S) ==
    \A n \in S :
        /\ staging[n] = NoFile
        /\ IF validate_json_file(ContentOf(n))
           THEN processed[n] # NoFile /\ error[n] = NoFile
           ELSE error[n] # NoFile /\ processed[n] = NoFile

Archived(n) ==
    staging[n] = NoFile /\ (processed[n] # NoFile \/ error[n] # NoFile)

PersistFailureLeavesBatchAndStore ==
    (hist.persistFailed \/ hist.stoppedAt = "persist") =>
        /\ result # "true"
        /\ pc = "done" => result = "false"
        /\ \A n \in Batch : InStagingOnly(n)
        /\ db = hist.dbBefore

ArchivedNames == { n \in Names : processed[n] # NoFile \/ error[n] # NoFile }

C8_AllOrNothing ==
    /\ conn.open => db = hist.dbBefore
    /\ (hist.persistFailed \/ hist.stoppedAt = "persist") =>
          db = hist.dbBefore
    /\ hist.committed =>
          \A i \in 1..Len(aggregated_data) :
              Row(aggregated_data[i].k, aggregated_data[i].v, timestamp,
                  latest_file) \in db

\* update_database failed after writing one key of two
C8_Witness ==
    /\ hist.persistFailed /\ hist.partial
    /\ updated_states > 0 /\ updated_states < Len(aggregated_data)

(***************************************************************************)
(* C9: update_database is idempotent.  When it commits the aggregates and  *)
(* source of the previous committed call, the table holds the same         *)
(* population and source_file for every key as before, one row per key of  *)
(* the input; and every call returns the number of keys of its input.      *)
(***************************************************************************)
C9_Idempotent ==
    /\ hist.repeated =>
          /\ Projection(db) = Projection(hist.dbBefore)
          /\ \A k \in DictKeys(aggregated_data) :
                Cardinality(RowsOf(db, k)) = 1
    /\ hist.committed =>
          updated_states = Cardinality(DictKeys(aggregated_data))

\* a second call with the same two-key aggregates and source has committed
C9_Witness ==
    /\ hist.repeated
    /\ Cardinality(DictKeys(aggregated_data)) = 2

(***************************************************************************)
(* C10: the table holds at most one row per key; a committed               *)
(* update_database leaves, for each key of its input, exactly the row      *)
(* (key, input value, its timestamp, its source), and the rows of the      *)
(* other keys as they were.                                                *)
(***************************************************************************)
OneRowPerKey(rows) == \A k \in Keys : Cardinality(RowsOf(rows, k)) <= 1

C10_FullReplace ==
    /\ OneRowPerKey(db)
    /\ OneRowPerKey(conn.rows)
    /\ \A r \in db : r.state_name \in Keys
    /\ hist.committed =>
          \A k \in Keys :
              IF k \in DictKeys(aggregated_data)
              THEN RowsOf(db, k) = { Row(k, DictGet(aggregated_data, k),
                                         timestamp, latest_file) }
              ELSE RowsOf(db, k) = RowsOf(hist.dbBefore, k)

\* a call has replaced a row that held another population and source, and
\* left the row of a key outside its input
C10_Witness ==
    /\ hist.committed
    /\ \E r \in hist.dbBefore :
          /\ r.state_name \in DictKeys(aggregated_data)
          /\ r.total_population # DictGet(aggregated_data, r.state_name)
          /\ r.source_file # latest_file
    /\ \E r \in hist.dbBefore : r.state_name \notin DictKeys(aggregated_data)

(***************************************************************************)
(* Vocabulary of the scheduler properties.                                 *)
(***************************************************************************)
\* the live job set
Registered == pending_jobs \cup jobstore

\* the job will not fire until it is resumed or triggered
Paused(j) == j \in Registered /\ next_run_time[j] = NoRunTime

Executing(j) == instances[j] > 0

\* the step is the call op(id), or the timer's step op on job id
Called(op, id) == call'.op = op /\ call'.job_id = id

Succeeded == call'.raised = "none"

ControlOps ==
    {"pause_job", "resume_job", "remove_job", "trigger_job_manually",
     "get_job_details"}

\* the timer starts the action of j
Fires(j) == Called("run", j)

(***************************************************************************)
(* C11 (as stated): on a started scheduler trigger_job_manually(j) on a    *)
(* known job leaves j not paused, a status query then does not show it     *)
(* paused, and the call reports auto_resumed = true exactly when j was     *)
(* paused right before the call.                                           *)
(***************************************************************************)
C11_AutoResumeReported ==
    [][ \A j \in JobIds :
          (state = "running" /\ Called("trigger_job_manually", j) /\ Succeeded)
          => /\ ~Paused(j)'
             /\ job_info(j)'.status # "paused"
             /\ call'.auto_resumed = Paused(j) ]_vars

\* What holds of a manual trigger on a started scheduler: the job is not
\* paused afterwards and is not shown paused.
TriggerLeavesJobActive ==
    [][ \A j \in JobIds :
          (state = "running" /\ Called("trigger_job_manually", j) /\ Succeeded)
          => /\ ~Paused(j)'
             /\ job_info(j)'.status # "paused" ]_vars

(***************************************************************************)
(* C12: pause_job, resume_job, remove_job, trigger_job_manually and        *)
(* get_job_details called with an id that is not in the job set raise      *)
(* ValueError and change neither the job set nor any job's state or        *)
(* next run time; no step adds to the job set an id other than the two     *)
(* registered at construction.                                             *)
(***************************************************************************)
C12_UnknownIdFails ==
    /\ [](Registered \subseteq JobIds)
    /\ [][ /\ \A op \in ControlOps, id \in Ids :
                (Called(op, id) /\ id \notin Registered) =>
                    /\ call'.raised = "ValueError"
                    /\ UNCHANGED sched_state
           /\ \A id \in Ids :
                (id \notin Registered /\ id \in Registered') =>
                    (call'.op = "__init__" /\ id \in JobIds) ]_vars

\* a control operation has just failed on a removed job of a started
\* scheduler that still has a paused job
C12_Witness ==
    /\ call.op \in ControlOps
    /\ call.raised = "ValueError"
    /\ call.job_id \in JobIds
    /\ state = "running"
    /\ \E j \in JobIds : Paused(j)

(***************************************************************************)
(* C13: every report get_job_status produces, for all jobs or for one id,  *)
(* has total_jobs = running_jobs + paused_jobs + executing_jobs and        *)
(* total_jobs = the number of entries of jobs.                             *)
(***************************************************************************)
C13_CountsAddUp ==
    call.op = "get_job_status" =>
        /\ call.report.total_jobs =
              call.report.running_jobs + call.report.paused_jobs
                  + call.report.executing_jobs
        /\ call.report.total_jobs = Len(call.report.jobs)
        /\ \A i \in 1..Len(call.report.jobs) :
              call.report.jobs[i].status \in {"running", "paused", "executing"}

\* a report on all jobs of a started scheduler in which one job is paused
\* and the other is executing
C13_Witness ==
    /\ call.op = "get_job_status"
    /\ call.job_id = NoId
    /\ call.report.total_jobs = 2
    /\ state = "running"
    /\ \E j, k \in JobIds : Paused(j) /\ Executing(k) /\ ~Paused(k)

(***************************************************************************)
(* C14: pause_job and resume_job succeed on a known id in every lifecycle  *)
(* state.  pause_job(j) leaves j paused and the other job as it was; while *)
(* j is paused the timer does not start its action, and j stops being      *)
(* paused (while staying in the job set) only by resume_job(j) or          *)
(* trigger_job_manually(j); resume_job(j) leaves j with a next run time.   *)
(***************************************************************************)
C14_PausedDoesNotFire ==
    [][ \A j \in JobIds :
          /\ (Called("pause_job", j) /\ j \in Registered) =>
                /\ Succeeded
                /\ Paused(j)'
                /\ \A k \in JobIds \ {j} :
                      /\ next_run_time'[k] = next_run_time[k]
                      /\ instances'[k] = instances[k]
                      /\ (k \in Registered') = (k \in Registered)
          /\ (Called("resume_job", j) /\ j \in Registered) =>
                /\ Succeeded
                /\ j \in Registered'
                /\ next_run_time'[j].timed
                /\ \A k \in JobIds \ {j} :
                      /\ next_run_time'[k] = next_run_time[k]
                      /\ instances'[k] = instances[k]
                      /\ (k \in Registered') = (k \in Registered)
          /\ Paused(j) => ~Fires(j)
          /\ (Paused(j) /\ ~Paused(j)' /\ j \in Registered'
                  /\ call'.op # "__init__") =>
                (Called("resume_job", j) \/ Called("trigger_job_manually", j))
      ]_vars

\* a job of a started scheduler was paused while it was executing, and its
\* trigger's start date has passed
C14_Witness ==
    \E j \in JobIds :
        /\ Paused(j)
        /\ Executing(j)
        /\ state = "running"
        /\ now > start_date[j]

(***************************************************************************)
(* C15 (as stated): the status reported for a job is its lifecycle state   *)
(* (paused exactly when it is paused, executing exactly while its action   *)
(* runs, running otherwise), next_run_time is absent exactly when the job  *)
(* is paused or unscheduled, and the status pause_job and resume_job       *)
(* return is the one the next status query reports.  Stated of a started   *)
(* scheduler.                                                              *)
(***************************************************************************)
Lifecycle(j) ==
    IF Paused(j) THEN "paused"
    ELSE IF Executing(j) THEN "executing"
    ELSE "running"

C15_StatusIsLifecycle ==
    state = "running" =>
        /\ \A j \in get_jobs :
              /\ job_info(j).status = Lifecycle(j)
              /\ (job_info(j).next_run_time = NoRunTime)
                    = (~next_run_time[j].timed)
        /\ (call.op \in {"pause_job", "resume_job"} /\ call.raised = "none")
              => call.status = job_info(call.job_id).status

\* What the reports do get right: next_run_time is absent exactly when the
\* job has no next run time (it is paused, or not scheduled yet).
NextRunTimeAbsentWhenPaused ==
    \A j \in get_jobs :
        ~shutting =>
            (job_info(j).next_run_time = NoRunTime) = (~next_run_time[j].timed)

(***************************************************************************)
(* C16: remove_job(j) on a known id succeeds in every lifecycle state and  *)
(* takes exactly j out of the job set, leaving the other job's state and   *)
(* next run time as they were.  A job that is not in the job set does not  *)
(* fire, is not listed by any status query, makes every control operation  *)
(* fail with ValueError, and comes back only with a newly constructed      *)
(* scheduler, which registers both jobs.                                   *)
(***************************************************************************)
ListedIds(q) ==
    { get_job_status(q).jobs[i].id : i \in 1..Len(get_job_status(q).jobs) }

C16_RemovedStaysRemoved ==
    /\ [](\A j \in JobIds, q \in Ids \cup {NoId} :
              j \notin Registered => j \notin ListedIds(q))
    /\ [][ \A j \in JobIds :
             /\ (Called("remove_job", j) /\ j \in Registered) =>
                   /\ Succeeded
                   /\ Registered' = Registered \ {j}
                   /\ \A k \in JobIds \ {j} :
                         /\ next_run_time'[k] = next_run_time[k]
                         /\ instances'[k] = instances[k]
                   /\ UNCHANGED << state, enabled >>
             /\ j \notin Registered =>
                   /\ ~Fires(j)
                   /\ \A op \in ControlOps :
                         Called(op, j) => call'.raised = "ValueError"
                   /\ j \in Registered' =>
                         (call'.op = "__init__" /\ Registered' = JobIds)
         ]_vars

\* a job of a started scheduler has just been removed while it was
\* executing and the other job was paused
C16_Witness ==
    /\ call.op = "remove_job"
    /\ call.raised = "none"
    /\ Executing(call.job_id)
    /\ state = "running"
    /\ \E k \in JobIds \ {call.job_id} : Paused(k)

(***************************************************************************)
(* C17: a newly constructed scheduler has exactly the jobs fetch_data and  *)
(* process_data and nothing executing; the timer starts an action only on  *)
(* a running scheduler, and the scheduler becomes running only by a        *)
(* start() with the switch on.  With the switch off start() changes        *)
(* nothing, the scheduler stays stopped and no action ever executes, also  *)
(* after a manual trigger.                                                 *)
(***************************************************************************)
C17_NothingRunsBeforeStart ==
    /\ [](call.op = "__init__" =>
              /\ Registered = JobIds
              /\ state = "stopped"
              /\ \A j \in JobIds : ~Executing(j))
    /\ [](~enabled => (state = "stopped" /\ \A j \in JobIds : ~Executing(j)))
    /\ [][ /\ \A j \in JobIds :
                (~Executing(j) /\ Executing(j)') =>
                    (Fires(j) /\ state = "running")
           /\ (state = "stopped" /\ state' = "running") =>
                (call'.op = "start" /\ enabled)
           /\ (call'.op = "start" /\ ~enabled) =>
                (Succeeded /\ UNCHANGED sched_state) ]_vars

\* the switch is off, start() has just returned, and a job whose manual
\* trigger set its run time in the past has not run
C17_Witness ==
    /\ ~enabled
    /\ call.op = "start"
    /\ Registered = JobIds
    /\ \E j \in JobIds : next_run_time[j].timed /\ next_run_time[j].t < now

(***************************************************************************)
(* C18 (as stated): start() on a started scheduler succeeds and leaves the *)
(* job set, every job's state and every next run time as they were.        *)
(***************************************************************************)
C18_StartIdempotent ==
    [][ (call'.op = "start" /\ state = "running") =>
            /\ Succeeded
            /\ UNCHANGED sched_state ]_vars

\* What holds of a second start(): it fails and changes nothing.
SecondStartChangesNothing ==
    [][ (call'.op = "start" /\ state = "running") =>
            UNCHANGED sched_state ]_vars

(***************************************************************************)
(* C19: shutdown() of a running scheduler returns only when no job         *)
(* execution is in flight; while it waits an execution ends only by        *)
(* finishing; when it has returned the scheduler is stopped with an empty  *)
(* job set, and a stopped scheduler or an empty job set starts no action.  *)
(* shutdown() of a scheduler that is not running returns normally and      *)
(* changes nothing.                                                        *)
(***************************************************************************)
ShutdownReturned == Called("shutdown", NoId) /\ call'.status = "completed"

C19_ShutdownWaits ==
    [][ /\ ShutdownReturned =>
              /\ shutting
              /\ \A j \in JobIds : ~Executing(j) /\ ~Executing(j)'
              /\ state' = "stopped"
              /\ Registered' = {}
        /\ \A j \in JobIds :
              /\ (shutting /\ instances'[j] < instances[j]) =>
                    (Called("done", j) \/ call'.op = "__init__")
              /\ (state = "stopped" \/ j \notin Registered) => ~Fires(j)
        /\ (call'.op = "shutdown" /\ state = "stopped"
                /\ call'.status # "completed") =>
              /\ Succeeded
              /\ call'.status = "not running"
              /\ UNCHANGED sched_state ]_vars

\* shutdown() is waiting for two executions in flight
C19_Witness ==
    /\ shutting
    /\ call.op = "shutdown"
    /\ call.status = "waiting"
    /\ \A j \in JobIds : Executing(j)

(***************************************************************************)
(* C20: at most one execution of a job is in progress at any time; a due   *)
(* time (a timer tick or a manual trigger) that comes while the job is     *)
(* executing starts no second execution of it.  The two jobs can execute   *)
(* at the same time.                                                       *)
(***************************************************************************)
C20_NoOverlap ==
    /\ [](\A j \in JobIds : instances[j] <= 1)
    /\ [][ \A j \in JobIds :
             (Executing(j) /\ (Called("run", j) \/ Called("skip", j))) =>
                 (Called("skip", j) /\ instances' = instances) ]_vars

\* both jobs are executing and the timer has just passed over a job whose
\* run time came while it was executing
C20_Witness ==
    /\ call.op = "skip"
    /\ \A j \in JobIds : instances[j] = 1

(***************************************************************************)
(* C21 (as stated): trigger_job_manually(j) runs nothing itself, it only   *)
(* sets j's next run time to now; on a started scheduler the timer then    *)
(* takes that run time by starting j's action, once.                       *)
(***************************************************************************)
TimerTakes(j) == Called("run", j) \/ Called("skip", j)

Triggered(j) ==
    /\ call.op = "trigger_job_manually"
    /\ call.job_id = j
    /\ call.raised = "none"
    /\ state = "running"

C21_TriggerRunsOnce ==
    [][ \A j \in JobIds :
          /\ (Called("trigger_job_manually", j) /\ Succeeded) =>
                /\ instances' = instances
                /\ next_run_time'[j] = RunAt(now)
          /\ (Triggered(j) /\ TimerTakes(j)) =>
                /\ Fires(j)
                /\ instances'[j] = instances[j] + 1
                /\ ~Due(j)' ]_vars

\* What holds of a manual trigger: the call starts nothing and leaves the
\* job due; the timer's next step on the job ends the due time, and starts
\* the action if the job is not executing.
TriggerOnlySchedules ==
    [][ \A j \in JobIds :
          /\ (Called("trigger_job_manually", j) /\ Succeeded) =>
                /\ instances' = instances
                /\ next_run_time'[j] = RunAt(now)
                /\ state = "running" => Due(j)'
          /\ (Triggered(j) /\ TimerTakes(j)) =>
                /\ ~Due(j)'
                /\ ~Executing(j) => (Fires(j) /\ instances'[j] = 1) ]_vars

(***************************************************************************)
(* C22: for a job the scheduler finds, get_job_details(j) is the record    *)
(* that get_job_status(j) lists as its only entry; get_job_details on an   *)
(* id that is not found raises ValueError.                                 *)
(***************************************************************************)
C22_DetailsMatchStatus ==
    /\ [](~shutting =>
             \A j \in get_jobs :
                 /\ get_job_status(j).total_jobs = 1
                 /\ Len(get_job_status(j).jobs) = 1
                 /\ get_job_details(j) = get_job_status(j).jobs[1])
    /\ [][ \A id \in Ids :
             Called("get_job_details", id) =>
                 IF get_job(id)
                 THEN /\ Succeeded
                      /\ call'.status = get_job_status(id).jobs[1].status
                      /\ call'.next_run_time
                            = get_job_status(id).jobs[1].next_run_time
                 ELSE call'.raised = "ValueError" ]_vars

\* get_job_details has just answered for a paused job of a started
\* scheduler while the other job was executing
C22_Witness ==
    /\ call.op = "get_job_details"
    /\ call.raised = "none"
    /\ state = "running"
    /\ Paused(call.job_id)
    /\ \E k \in JobIds \ {call.job_id} : Executing(k)

(***************************************************************************)
(* The functions of DataProcessor applied on their own.  One application   *)
(* at a time: Apply... draws the argument and records what the function    *)
(* returns, Return forgets it.                                             *)
(***************************************************************************)
MaxElements == 3
MaxTail == 1

Seqs(S, n) == UNION { [1..k -> S] : k \in 0..n }

\* elements of a feature list: well-formed ones, a float (1.5), a missing,
\* a non-numeric ("abc") and a null POPULATION, a missing and an empty
\* STATE_NAME, and elements that are not of the expected shape
AggregateElements ==
    { Feature("CA", 1), Feature("CA", 2), Feature("TX", 1),
      Item("attr", Val("str", "CA"), Val("float", 15)),
      Item("attr", Val("str", "TX"), Absent),
      Item("attr", Val("str", "TX"), Val("str", 0)),
      Item("attr", Val("str", "TX"), Null),
      Item("attr", Absent, Val("int", 1)),
      Item("attr", Val("str", ""), Val("int", 1)),
      NoAttr, Scalar, NullAttr, ListAttr }

\* elements of the files handed to validate_json_file
ValidateElements ==
    { Feature("CA", 1),
      Item("attr", Val("str", "CA"), Val("str", 0)),
      Item("attr", Val("str", "CA"), Absent),
      ListAttr, NullAttr }

ValidateContents ==
    { Json("list", items) :
        items \in Seqs(ValidateElements, ValidationPrefix + MaxTail) }
      \cup { Json("corrupt", << >>), Json("object", << >>), NoFile }

\* names handed to extract_timestamp: the 12:00 and 15:00 snapshots of
\* 2026-01-24, the first one in fullwidth digits, month 13, a 7-digit date,
\* a 7-digit time, .txt, .json.bak, an old_ prefix and another prefix
ExtractNames ==
    { SnapshotName(20260124, 120000),
      SnapshotName(20260124, 150000),
      WideName(20260124, 120000),
      SnapshotName(20261301, 0),
      FileName("demographic_data_", 7, 2026012, 6, 120000, ".json", "ascii"),
      FileName("demographic_data_", 8, 20260124, 7, 1200000, ".json", "ascii"),
      FileName("demographic_data_", 8, 20260124, 6, 120000, ".txt", "ascii"),
      FileName("demographic_data_", 8, 20260124, 6, 120000, ".json.bak", "ascii"),
      FileName("old_demographic_data_", 8, 20260124, 6, 120000, ".json", "ascii"),
      FileName("census_data_", 8, 20260124, 6, 120000, ".json", "ascii") }

\* candidates handed to find_latest_file
LatestCandidates ==
    { SnapshotName(20260124, 120000),
      SnapshotName(20260124, 150000),
      WideName(20260124, 120000),
      SnapshotName(20261301, 0) }

\* directory entries: data_dir and its two archive directories
DataDir == "data"
ListedDirs == { DataDir, "data/processed", "data/error" }

ListedNames ==
    { SnapshotName(20260124, 120000),
      FileName("demographic_data_", 7, 2026012, 6, 120000, ".json", "ascii"),
      FileName("demographic_data_", 8, 20260124, 6, 120000, ".txt", "ascii"),
      FileName("demographic_data_", 8, 20260124, 6, 120000, ".json.bak", "ascii"),
      FileName("old_demographic_data_", 8, 20260124, 6, 120000, ".json", "ascii") }

Entries == [dir : ListedDirs, name : ListedNames]

\* find_demographic_files over a directory tree: glob does not descend
DiscoverIn(listing) ==
    { e.name : e \in { x \in listing : x.dir = DataDir /\ MatchesDiscovery(x.name) } }

PureInit == PipelineInit /\ Constructed(TRUE, 0) /\ NotApplied

\* no application is in progress
Idle == fn = "none"

Apply(f, a, r) ==
    /\ fn' = f
    /\ arg' = a
    /\ ret' = r
    /\ UNCHANGED << pipeline_vars, sched_vars, store_vars, held, work, resume,
                    writing >>

ApplyAggregate ==
    /\ Idle
    /\ \E data \in Seqs(AggregateElements, MaxElements) :
          LET r == aggregate_by_state(data)
          IN  Apply("aggregate_by_state",
                    [NoArg EXCEPT !.data = data],
                    [NoRet EXCEPT !.raised = r.raised, !.dict = r.value])

ApplyValidate ==
    /\ Idle
    /\ \E c \in ValidateContents :
          Apply("validate_json_file",
                [NoArg EXCEPT !.content = c],
                [NoRet EXCEPT !.valid = validate_json_file(c)])

ApplyFindLatest ==
    /\ Idle
    /\ \E fs \in Seqs(LatestCandidates, MaxElements) :
          LET r == find_latest_file(fs)
          IN  Apply("find_latest_file",
                    [NoArg EXCEPT !.files = fs],
                    [NoRet EXCEPT !.raised = r.raised, !.none = r.none,
                                  !.file = r.value])

ApplyExtract ==
    /\ Idle
    /\ \E name \in ExtractNames :
          LET r == extract_timestamp(name)
          IN  Apply("extract_timestamp",
                    [NoArg EXCEPT !.name = name],
                    [NoRet EXCEPT !.raised = r.raised, !.error = r.error,
                                  !.stamp = r.value])

ApplyDiscover ==
    /\ Idle
    /\ \E listing \in SUBSET Entries :
          Apply("find_demographic_files",
                [NoArg EXCEPT !.listing = listing],
                [NoRet EXCEPT !.found = DiscoverIn(listing)])

Return ==
    /\ fn # "none"
    /\ fn' = "none"
    /\ arg' = NoArg
    /\ ret' = NoRet
    /\ UNCHANGED << pipeline_vars, sched_vars, store_vars, held, work, resume,
                    writing >>

PureNext ==
    \/ ApplyAggregate
    \/ ApplyValidate
    \/ ApplyFindLatest
    \/ ApplyExtract
    \/ ApplyDiscover
    \/ Return

PureSpec == PureInit /\ [][PureNext]_vars

(***************************************************************************)
(* Vocabulary of the claims about the functions.                           *)
(***************************************************************************)
Applied(f) == fn = f

\* the reorderings of a list of n elements
PermsOf ==
    [n \in 0..(MaxElements + 1) |->
        { p \in [1..n -> 1..n] : \A i, j \in 1..n : p[i] = p[j] => i = j }]

Permute(seq, p) == [i \in 1..Len(seq) |-> seq[p[i]]]

\* two dicts are equal as Python compares them: same keys, same values
SameMapping(a, b) ==
    /\ DictKeys(a) = DictKeys(b)
    /\ \A k \in DictKeys(a) : DictGet(a, k) = DictGet(b, k)

\* C23: aggregate_by_state gives the same key-to-sum mapping for every
\* reordering of its input (and raises for a reordering exactly when it
\* raises for the input)
C23_PermutationInvariant ==
    Applied("aggregate_by_state") =>
        \A p \in PermsOf[Len(arg.data)] :
            LET other == aggregate_by_state(Permute(arg.data, p))
            IN  /\ other.raised = ret.raised
                /\ ~ret.raised => SameMapping(other.value, ret.dict)

\* a list of three elements with two keys, one of them carried twice with
\* different values, has been aggregated
C23_Witness ==
    /\ Applied("aggregate_by_state")
    /\ ~ret.raised
    /\ Len(arg.data) = 3
    /\ DictKeys(ret.dict) = {"CA", "TX"}
    /\ \E i, j \in 1..3 :
          /\ i # j
          /\ ItemCounts(arg.data[i]) /\ ItemCounts(arg.data[j])
          /\ arg.data[i].state = arg.data[j].state
          /\ IntOf(arg.data[i].pop) # IntOf(arg.data[j].pop)

\* the element carries key k: it is an object whose attributes name a
\* non-empty STATE_NAME
Carries(item, k) ==
    /\ item.kind = "attr"
    /\ item.state.t = "str"
    /\ item.state.v = k
    /\ k # ""

\* what the element contributes: its value when numeric, else zero
Contribution(item) ==
    IF item.pop.t \in {"int", "float", "bool"} THEN IntOf(item.pop) ELSE 0

RECURSIVE SumFor(_, _)
SumFor(data, k) ==
    IF data = << >> THEN 0
    ELSE (IF Carries(Head(data), k) THEN Contribution(Head(data)) ELSE 0)
         + SumFor(Tail(data), k)

CarriedKeys(data) ==
    { k \in Keys : \E i \in 1..Len(data) : Carries(data[i], k) }

\* C24: when aggregate_by_state returns, the mapping has an entry for each
\* key carried by some element and its value is the sum of the numeric
\* values of the elements with that key, a missing or non-numeric value
\* counting as zero
C24_SumsPerKey ==
    (Applied("aggregate_by_state") /\ ~ret.raised) =>
        /\ DictKeys(ret.dict) = CarriedKeys(arg.data)
        /\ \A k \in DictKeys(ret.dict) :
              DictGet(ret.dict, k) = SumFor(arg.data, k)

\* what the function does return: the keys carried by an element whose
\* value is missing or numeric, each with its sum
SumsOverCountedElements ==
    (Applied("aggregate_by_state") /\ ~ret.raised) =>
        /\ DictKeys(ret.dict) =
              { k \in Keys : \E i \in 1..Len(arg.data) :
                    Carries(arg.data[i], k) /\ ItemCounts(arg.data[i]) }
        /\ \A k \in DictKeys(ret.dict) :
              DictGet(ret.dict, k) = SumFor(arg.data, k)

\* C25: aggregate_by_state never raises, whatever its elements look like
C25_NeverRaises ==
    Applied("aggregate_by_state") => ~ret.raised

\* what does hold: the function raises only for an element that is not an
\* object or whose attributes are not an object, and tolerates an object
\* without attributes, a missing or empty key and a non-numeric value
RaisesOnlyOnShape ==
    Applied("aggregate_by_state") =>
        (ret.raised <=>
            \E i \in 1..Len(arg.data) :
                arg.data[i].kind \in {"scalar", "nullattr", "listattr"})

\* the element is an object whose attributes are an object containing the
\* key field and a numeric value field
WellFormed(item) ==
    /\ item.kind = "attr"
    /\ item.state.t # "absent"
    /\ item.pop.t \in {"int", "float"}

\* the first 5 elements of the file
Sampled(c) == SubSeq(c.items, 1, Min(ValidationPrefix, Len(c.items)))

\* C26: validate_json_file returns true exactly when the file parses, its
\* top-level value is a list and each of its first 5 elements is an object
\* whose attributes contain STATE_NAME and a numeric POPULATION
C26_ValidIffPrefixWellFormed ==
    Applied("validate_json_file") =>
        (ret.valid <=>
            /\ arg.content.shape = "list"
            /\ \A i \in 1..Len(Sampled(arg.content)) :
                  WellFormed(arg.content.items[i]))

\* what does hold: the result is decided by the presence of the two names in
\* the attributes of the first 5 elements, whatever the attributes and the
\* value are, and the elements after the fifth do not matter
PresenceInPrefixDecides ==
    Applied("validate_json_file") =>
        /\ ret.valid <=>
              /\ arg.content.shape = "list"
              /\ \A i \in 1..Len(Sampled(arg.content)) :
                    /\ arg.content.items[i].kind \in {"attr", "listattr"}
                    /\ arg.content.items[i].state.t # "absent"
                    /\ arg.content.items[i].pop.t # "absent"
        /\ arg.content.shape = "list" =>
              ret.valid = validate_json_file(Json("list", Sampled(arg.content)))

\* the candidates whose timestamp no other candidate of the list exceeds
Latest(fs) ==
    { fs[i] : i \in { i \in 1..Len(fs) :
        \A j \in 1..Len(fs) :
            ~StampLess(extract_timestamp(fs[i]).value,
                       extract_timestamp(fs[j]).value) } }

\* every candidate of the list carries a date and a time
AllStamped(fs) == \A i \in 1..Len(fs) : ~extract_timestamp(fs[i]).raised

\* C27: find_latest_file returns None for an empty list and else a
\* candidate of maximal timestamp, the same one for every order of the list
C27_LatestWhateverTheOrder ==
    (Applied("find_latest_file") /\ AllStamped(arg.files)) =>
        /\ ~ret.raised
        /\ ret.none <=> arg.files = << >>
        /\ ~ret.none =>
              /\ ret.file \in Latest(arg.files)
              /\ \A p \in PermsOf[Len(arg.files)] :
                    find_latest_file(Permute(arg.files, p)).value = ret.file

\* what does hold: None for an empty list, else the first candidate of the
\* list whose timestamp is maximal, so the 15:00 file wins over the 12:00
\* file in either order
FirstOfTheLatest ==
    (Applied("find_latest_file") /\ AllStamped(arg.files)) =>
        /\ ~ret.raised
        /\ ret.none <=> arg.files = << >>
        /\ ~ret.none =>
              /\ ret.file \in Latest(arg.files)
              /\ \E i \in 1..Len(arg.files) :
                    /\ arg.files[i] = ret.file
                    /\ \A j \in 1..(i - 1) : arg.files[j] \notin Latest(arg.files)
              /\ Cardinality(Latest(arg.files)) = 1 =>
                    \A p \in PermsOf[Len(arg.files)] :
                        find_latest_file(Permute(arg.files, p)).value = ret.file

\* the whole name is demographic_data_ + 8 digits + _ + 6 digits + .json
Conforms(name) ==
    /\ name.prefix = "demographic_data_"
    /\ name.dlen = 8
    /\ name.tlen = 6
    /\ name.ext = ".json"

\* C28: find_demographic_files returns exactly the entries directly in the
\* staging directory whose whole name conforms; other names and the entries
\* of processed/ and error/ are left out without an error
C28_ExactlyConformingInStaging ==
    Applied("find_demographic_files") =>
        /\ ~ret.raised
        /\ \A e \in Entries :
              e.name \in ret.found <=>
                  \E x \in arg.listing :
                      x.name = e.name /\ x.dir = DataDir /\ Conforms(x.name)

\* the staging directory holds a conforming name and a name with a missing
\* digit, processed/ holds a conforming name too, and only the first one is
\* returned
C28_Witness ==
    /\ Applied("find_demographic_files")
    /\ \E x, y, z \in arg.listing :
          /\ x.dir = DataDir /\ Conforms(x.name)
          /\ y.dir = DataDir /\ y.name.dlen = 7
          /\ z.dir = "data/processed" /\ Conforms(z.name)
    /\ \E x \in arg.listing : x.dir = DataDir /\ x.name.ext = ".json.bak"
    /\ Cardinality(ret.found) = 1

\* C29: extract_timestamp returns the date and time of the two digit groups
\* for every name discovery admits and raises 'Invalid filename format' for
\* every other name, so discovery admits no name on which it fails
C29_ExtractionAgreesWithDiscovery ==
    Applied("extract_timestamp") =>
        /\ Conforms(arg.name) =>
              /\ ~ret.raised
              /\ ret.stamp = <<arg.name.date, arg.name.time>>
        /\ ~Conforms(arg.name) =>
              /\ ret.raised
              /\ ret.error = "Invalid filename format"

\* what does hold: a conforming name whose digit groups are a calendar date
\* and a time of day gives that date and time, and a name in which the
\* pattern occurs nowhere raises 'Invalid filename format'
ExtractsCalendarDates ==
    Applied("extract_timestamp") =>
        /\ (Conforms(arg.name) /\ StrptimeOk(arg.name.date, arg.name.time)) =>
              /\ ~ret.raised
              /\ ret.stamp = <<arg.name.date, arg.name.time>>
        /\ ~SearchMatches(arg.name) =>
              /\ ret.raised
              /\ ret.error = "Invalid filename format"

\* archive_files handles the next file of its two lists: the step is the
\* one of its loop, not a file being staged meanwhile nor the process being
\* stopped
MoveAttempted ==
    /\ pc = "archive"
    /\ archiving # << >>
    /\ pc' # "stopped"
    /\ archiving' # archiving \/ pc' # pc

\* the file has gone from staging to the directory it was meant for
MovedToTarget(m) ==
    /\ staging'[m.name] = NoFile
    /\ IF m.dir = ProcessedDir
       THEN processed'[m.name] = staging[m.name] /\ error' = error
       ELSE error'[m.name] = staging[m.name] /\ processed' = processed

\* C30: archive_files attempts the move of every file of its two lists: the
\* file ends in its target directory or the failure is logged, and either
\* way archive_files does not raise and goes on with the remaining files
C30_EveryMoveAttempted ==
    [][ MoveAttempted =>
          LET m == Head(archiving)
          IN  /\ pc' = "archive"
              /\ archiving' = Tail(archiving)
              /\ \/ MovedToTarget(m)
                 \/ /\ log' = Append(log, "ERROR_MOVING")
                    /\ UNCHANGED dirs ]_vars

\* what does hold: archive_files is left by an exception only when the log
\* entry of a failed move cannot be written; a move that succeeds puts the
\* file in its target directory and a failure that is logged lets the loop
\* go on
LoggedMoveFailureTolerated ==
    [][ MoveAttempted =>
          LET m == Head(archiving)
          IN  \/ /\ pc' = "archive"
                 /\ archiving' = Tail(archiving)
                 /\ \/ MovedToTarget(m)
                    \/ /\ log' = Append(log, "ERROR_MOVING")
                       /\ UNCHANGED dirs
              \/ /\ pc' = "handler"
                 /\ archiving' = archiving
                 /\ m.name \in hist'.moveFailed
                 /\ UNCHANGED << log, dirs >> ]_vars

(***************************************************************************)
(* Vocabulary of the claims about the log of a run.                        *)
(***************************************************************************)
Milestones ==
    << "PROCESSING_START", "FILES_FOUND", "LATEST_FILE", "DATABASE_UPDATE",
       "FILES_ARCHIVED" >>

Terminals ==
    { "PROCESSING_SUCCESS", "NO_FILES", "NO_VALID_FILES", "PROCESSING_ERROR" }

Positions(tag) == { i \in 1..Len(log) : log[i] = tag }
Logged(tag) == Positions(tag) # {}

\* the milestones in the log occur once each and in pipeline order
MilestonesInOrder ==
    \A a, b \in 1..Len(Milestones) :
        \A i \in Positions(Milestones[a]), j \in Positions(Milestones[b]) :
            /\ a = b => i = j
            /\ a < b => i < j

\* the entries written after a step are there only once it has happened
OnlyAfterTheStep ==
    /\ Logged("DATABASE_UPDATE") => hist.committed
    /\ Logged("FILES_ARCHIVED") => hist.committed /\ archiving = << >>

\* the milestones the run has reached are in the log
ReachedAreLogged ==
    /\ Logged("PROCESSING_START")
    /\ (hist.discovered /\ files # << >>) => Logged("FILES_FOUND")
    /\ hist.committed => Logged("LATEST_FILE")
    /\ (hist.committed /\ archiving = << >>) =>
          Logged("DATABASE_UPDATE") /\ Logged("FILES_ARCHIVED")

\* the log has one terminal entry and it agrees with what the run returned
OneTerminalEntry ==
    /\ Cardinality({ i \in 1..Len(log) : log[i] \in Terminals }) = 1
    /\ result = "true" <=> Logged("PROCESSING_SUCCESS")
    /\ result = "false" <=> ~Logged("PROCESSING_SUCCESS")

Aggregates ==
    { << [k |-> "CA", v |-> 1], [k |-> "TX", v |-> 1] >>,
      << [k |-> "TX", v |-> 2], [k |-> "CA", v |-> 2] >>,
      << [k |-> "TX", v |-> 2] >>,
      << >> }

\* the 12:00 and the 13:00 snapshot as source files
Sources == { NameCatalogue[1], NameCatalogue[2] }

StoreInit == PipelineInit /\ Constructed(TRUE, 0) /\ NotApplied

\* updated_states = 0; timestamp = now; sqlite3.connect(db_path)
Connect(i, agg, src) ==
    /\ tx[i].pc = "idle"
    /\ connects' = connects + 1
    /\ tx' = [tx EXCEPT ![i] = [pc |-> "open", agg |-> agg, src |-> src,
                                timestamp |-> connects + 1,
                                updated_states |-> 0, rows |-> table]]
    /\ UNCHANGED << table, lock, order >>
    /\ UNCHANGED << pipeline_vars, sched_vars, pure_vars, held, work, resume,
                    writing >>

\* every write goes ahead whoever holds the lock
LockGranted_NoLock(i) == TRUE

\* the invocation holds the write lock or can take it
LockGranted(i) == lock \in {0, i}

\* conn.execute(INSERT OR REPLACE ...); updated_states += 1
Write(i) ==
    /\ tx[i].pc = "open"
    /\ tx[i].updated_states < Len(tx[i].agg)
    /\ LockGranted(i)
    /\ lock' = i
    /\ LET t == tx[i]
           e == t.agg[t.updated_states + 1]
           seen == IF t.updated_states = 0 THEN table ELSE t.rows
       IN  tx' = [tx EXCEPT ![i].rows =
                        InsertOrReplace(seen, Row(e.k, e.v, t.timestamp, t.src)),
                            ![i].updated_states = @ + 1]
    /\ UNCHANGED << table, order, connects >>
    /\ UNCHANGED << pipeline_vars, sched_vars, pure_vars, held, work, resume,
                    writing >>

\* the lock is not released within the timeout: the INSERT raises
\* OperationalError and the invocation ends without a write
LockTimeout(i) ==
    /\ tx[i].pc = "open"
    /\ tx[i].updated_states < Len(tx[i].agg)
    /\ ~LockGranted(i)
    /\ tx' = [tx EXCEPT ![i].pc = "raised"]
    /\ UNCHANGED << table, lock, order, connects >>
    /\ UNCHANGED << pipeline_vars, sched_vars, pure_vars, held, work, resume,
                    writing >>

\* conn.commit() and return updated_states
StoreCommit(i) ==
    /\ tx[i].pc = "open"
    /\ tx[i].updated_states = Len(tx[i].agg)
    /\ IF lock = i
       THEN table' = Commit(table, tx[i].rows) /\ lock' = 0
       ELSE UNCHANGED << table, lock >>
    /\ tx' = [tx EXCEPT ![i].pc = "returned"]
    /\ order' = Append(order, i)
    /\ UNCHANGED connects
    /\ UNCHANGED << pipeline_vars, sched_vars, pure_vars, held, work, resume,
                    writing >>

StoreNext ==
    \E i \in Invocations :
        \/ \E agg \in Aggregates, src \in Sources : Connect(i, agg, src)
        \/ Write(i)
        \/ LockTimeout(i)
        \/ StoreCommit(i)

StoreSpec == StoreInit /\ [][StoreNext]_vars

(***************************************************************************)
(* Vocabulary of the claims about concurrent invocations.                  *)
(***************************************************************************)
Ended(i) == tx[i].pc \in {"returned", "raised"}
AllEnded == \A i \in Invocations : Ended(i)

RECURSIVE WriteAll(_, _, _)
\* the rows after the writes of invocation i from its k-th key on
WriteAll(rows, i, k) ==
    IF k > Len(tx[i].agg) THEN rows
    ELSE LET e == tx[i].agg[k]
         IN  WriteAll(InsertOrReplace(rows, Row(e.k, e.v, tx[i].timestamp,
                                                tx[i].src)), i, k + 1)

RECURSIVE Serial(_)
\* the store after the invocations of the sequence ran alone, one after the
\* other, from the empty store
Serial(seq) ==
    IF seq = << >> THEN {}
    ELSE WriteAll(Serial(SubSeq(seq, 1, Len(seq) - 1)), seq[Len(seq)], 1)

\* the orders in which a set of invocations can run one after the other
SerialOrders(S) ==
    { s \in [1..Cardinality(S) -> S] :
        \A a, b \in 1..Cardinality(S) : a # b => s[a] # s[b] }

KeysOf(i) == { tx[i].agg[k].k : k \in 1..Len(tx[i].agg) }

\* the invocation that wrote the row
WriterOf(r) == CHOOSE i \in Invocations : tx[i].timestamp = r.last_updated

\* the keys written by both i and j do not carry a row of i next to a row
\* of j
SameWriter(i, j) ==
    \A r1, r2 \in table :
        (/\ WriterOf(r1) = i
         /\ WriterOf(r2) = j
         /\ {r1.state_name, r2.state_name} \subseteq (KeysOf(i) \cap KeysOf(j)))
            => i = j

(***************************************************************************)
(* C32 (as stated): when the overlapping invocations have ended, the store *)
(* is the one some order of running all of them one after the other        *)
(* leaves, and the keys two of them both wrote carry the values and the    *)
(* source file of one of them.                                             *)
(***************************************************************************)
C32_SerialOutcome ==
    AllEnded =>
        /\ \E s \in SerialOrders(Invocations) : table = Serial(s)
        /\ \A i, j \in Invocations : SameWriter(i, j)

(***************************************************************************)
(* C32 (amended): at any time the store is the one the invocations that    *)
(* have committed leave when run one after the other in the order of their *)
(* commits; an invocation that raised has written nothing; and the keys    *)
(* two committed invocations both wrote carry the rows of one of them.     *)
(***************************************************************************)
C32_SerialOverCommitted ==
    /\ table = Serial(order)
    /\ \A i, j \in Invocations :
          (tx[i].pc = "returned" /\ tx[j].pc = "returned") => SameWriter(i, j)

\* two invocations over both keys with different values overlapped: the
\* second connected before the first committed, and both have committed
C32_Witness ==
    /\ Len(order) >= 2
    /\ \E i, j \in Invocations :
          /\ i # j
          /\ order[1] = i /\ order[2] = j
          /\ tx[j].timestamp < tx[i].timestamp
          /\ Cardinality(KeysOf(i) \cap KeysOf(j)) = 2
          /\ tx[i].agg # tx[j].agg

(***************************************************************************)
(* Control operations called from several threads.  An operation is two    *)
(* calls into the scheduler, each atomic under the scheduler's lock:       *)
(* get_job, and then the action on the job id.  Between the two, the       *)
(* operations of other callers and the timer take their steps.             *)
(***************************************************************************)
SplitOps == {"pause_job", "resume_job", "remove_job", "trigger_job_manually"}

ControlInit == PipelineInit /\ Constructed(TRUE, 0) /\ NotApplied

\* job = self.scheduler.get_job(job_id); if not job: raise ValueError
Lookup(op, id) ==
    /\ held = NoHeld
    /\ IF get_job(id)
       THEN /\ held' = [op |-> op, job_id |-> id]
            /\ call' = Step("get_job", id)
       ELSE /\ call' = Raised(op, id, "ValueError")
            /\ UNCHANGED held
    /\ UNCHANGED << sched_state, pipeline_vars, pure_vars, store_vars, work,
                    resume, writing >>

\* BaseScheduler._lookup_job raises JobLookupError, a KeyError
JobLookupError == "JobLookupError"

\* the second call: scheduler.pause_job, resume_job, remove_job, or
\* (resume_job and) job.modify; each looks the job id up again
Act ==
    /\ held # NoHeld
    /\ held' = NoHeld
    /\ LET op == held.op
           id == held.job_id
       IN  IF ~get_job(id)
           THEN /\ call' = Raised(op, id, JobLookupError)
                /\ UNCHANGED sched_state
           ELSE /\ next_run_time' =
                      [next_run_time EXCEPT ![id] =
                          CASE op = "pause_job" -> NoRunTime
                            [] op = "resume_job" -> Resumed(id)
                            [] op = "remove_job" -> NotSet
                            [] OTHER -> RunAt(now)]
                /\ pending_jobs' = IF op = "remove_job"
                                   THEN pending_jobs \ {id} ELSE pending_jobs
                /\ jobstore' = IF op = "remove_job"
                               THEN jobstore \ {id} ELSE jobstore
                /\ call' = [Step(op, id) EXCEPT
                              !.status = CASE op = "pause_job" -> "paused"
                                           [] op = "resume_job" -> "running"
                                           [] op = "remove_job" -> "removed"
                                           [] OTHER -> "none",
                              !.auto_resumed = (op = "trigger_job_manually"
                                                /\ was_paused(id))]
                /\ UNCHANGED << enabled, state, start_date, instances, now,
                                shutting >>
    /\ UNCHANGED << pipeline_vars, pure_vars, store_vars, work, resume,
                    writing >>

ControlNext ==
    \/ Start
    \/ \E op \in SplitOps, id \in Ids : Lookup(op, id)
    \/ Act
    \/ \E id \in JobIds : RemoveJob(id)
    \/ \E id \in JobIds : PauseJob(id)
    \/ \E j \in JobIds : ProcessJobs(j)
    \/ \E j \in JobIds : JobDone(j)
    \/ Tick

ControlSpec == ControlInit /\ [][ControlNext]_vars

\* C33: a control operation interleaved with the executions and with the
\* other operations ends with its normal result or with the ValueError of a
\* job that is not found, never with another error; after a pause the job
\* is paused and after a remove it is absent, also while it executes
C33_NormalResultOrJobNotFound ==
    /\ call.op \in SplitOps => call.raised \in {"none", "ValueError"}
    /\ (call.op = "pause_job" /\ call.raised = "none") => Paused(call.job_id)
    /\ (call.op = "remove_job" /\ call.raised = "none") =>
          call.job_id \notin Registered

\* what does hold: an operation whose job is still there when it acts ends
\* normally and leaves the job paused or absent, executing or not; only an
\* operation whose job was removed between its lookup and its action ends
\* with the scheduler's JobLookupError
OnlyStaleLookupFails ==
    /\ call.op \in SplitOps =>
          call.raised \in {"none", "ValueError", "JobLookupError"}
    /\ (call.op \in SplitOps /\ call.raised # "none") =>
          call.job_id \notin Registered
    /\ (call.op = "pause_job" /\ call.raised = "none") => Paused(call.job_id)
    /\ (call.op = "remove_job" /\ call.raised = "none") =>
          call.job_id \notin Registered

(***************************************************************************)
(* The bound actions of the jobs.  The executor of the BackgroundScheduler *)
(* is a pool of threads: run_job calls job.func() and takes what the call  *)
(* returns.  _process_data_job is a function, so the call runs its body;   *)
(* _fetch_data_job is declared async, so the call makes a coroutine object *)
(* and returns it without running any of the body, and nothing awaits it.  *)
(***************************************************************************)
MaxFirings == 2

\* what process_all_data gives to _process_data_job
CycleOutcomes == {"true", "false", "raised"}

\* the outcomes of fetcher.fetch_demographic_data(), were it awaited
FetchOutcomes == {"saved", "raised"}

\* job.func(): the body runs unless the function is declared async
CallRunsBody(j) == j # "fetch_data"

\* an exception of the body takes the job out of the store
AfterRun_RemovedOnError(store, j, outcome) ==
    IF outcome = "raised" THEN store \ {j} ELSE store

\* the except clause of the job's body logs the exception and returns, so
\* run_job sees a normal return and the job store is left as it is
AfterRun(store, j, outcome) == store

\* run_job in a thread of the pool, from the call of job.func() to the
\* release of the instance
RunJob(j, outcome) ==
    /\ instances[j] > 0
    /\ work[j].runs < MaxFirings
    /\ instances' = [instances EXCEPT ![j] = @ - 1]
    /\ work' = [work EXCEPT ![j] =
          IF ~CallRunsBody(j)
          THEN [@ EXCEPT !.runs = @ + 1, !.outcome = "coroutine"]
          ELSE IF j = "fetch_data"
          THEN [@ EXCEPT !.runs = @ + 1, !.outcome = outcome,
                         !.fetches = IF outcome = "saved" THEN @ + 1 ELSE @]
          ELSE [@ EXCEPT !.runs = @ + 1, !.outcome = outcome,
                         !.cycles = @ + 1]]
    /\ jobstore' = AfterRun(jobstore, j, work'[j].outcome)
    /\ call' = Step("done", j)
    /\ UNCHANGED << enabled, state, pending_jobs, next_run_time, start_date,
                    now, shutting, pipeline_vars, pure_vars, store_vars,
                    held, resume, writing >>

RunFetch == \E o \in FetchOutcomes : RunJob("fetch_data", o)

RunProcess == \E o \in CycleOutcomes : RunJob("process_data", o)

JobInit == PipelineInit /\ Constructed(TRUE, 0) /\ NotApplied

JobNext ==
    \/ Start
    \/ \E j \in JobIds : TriggerJobManually(j)
    \/ \E j \in JobIds : PauseJob(j)
    \/ \E j \in JobIds : ResumeJob(j)
    \/ \E j \in JobIds : ProcessJobs(j)
    \/ RunFetch
    \/ RunProcess
    \/ Tick

JobSpec == JobInit /\ [][JobNext]_vars

\* an execution of job j ends in this step
Completes(j) == instances'[j] < instances[j]

\* C35: every firing of a job runs its bound action to completion before
\* the job leaves the executing state: a firing of fetch_data performs the
\* fetch step (a snapshot is staged when the fetch succeeds, the failure is
\* the job's outcome when it does not), a firing of process_data performs
\* exactly one process_all_data cycle
C35_FiringRunsBoundAction ==
    [][ /\ Completes("fetch_data") =>
              /\ work'["fetch_data"].outcome \in FetchOutcomes
              /\ work'["fetch_data"].outcome = "saved" =>
                    work'["fetch_data"].fetches =
                       work["fetch_data"].fetches + 1
        /\ Completes("process_data") =>
              /\ work'["process_data"].outcome \in CycleOutcomes
              /\ work'["process_data"].cycles =
                    work["process_data"].cycles + 1 ]_vars

\* what does hold: a firing of process_data performs exactly one cycle; a
\* firing of fetch_data makes a coroutine and performs no fetch at all
FetchNeverPerformed ==
    /\ work["fetch_data"].fetches = 0
    /\ work["fetch_data"].outcome \in {"none", "coroutine"}
    /\ work["process_data"].cycles = work["process_data"].runs
    /\ work["process_data"].outcome = "none" <=>
          work["process_data"].runs = 0

\* an execution of job j ends in this step with an exception of the bound
\* action's body
EndsRaising(j) == Completes(j) /\ work'[j].outcome = "raised"

\* C36: an exception raised inside a job's bound action is confined to that
\* execution: the job stays in the job set, is paused only if it was, is no
\* longer executing, keeps its next run time, and the scheduler, the other
\* job and the timer's clock are as they were
C36_ExceptionConfined ==
    [][ \A j \in JobIds : EndsRaising(j) =>
          /\ j \in jobstore'
          /\ jobstore' = jobstore
          /\ Paused(j)' <=> Paused(j)
          /\ ~Executing(j)'
          /\ next_run_time' = next_run_time
          /\ state' = state
          /\ \A o \in JobIds \ {j} : instances'[o] = instances[o] ]_vars

\* process_data raised in its first execution and is executing again, next
\* to an execution of fetch_data
C36_Witness ==
    /\ work["process_data"].outcome = "raised"
    /\ work["process_data"].runs = 1
    /\ Executing("process_data")
    /\ Executing("fetch_data")
    /\ ~Paused("process_data")

(***************************************************************************)
(* A cycle cut short while archiving.  update_database has committed and   *)
(* closed its connection; the process is killed before, or in the middle   *)
(* of, the moves of archive_files, and a later process runs the next       *)
(* cycle.  No other fault happens.                                         *)
(***************************************************************************)
ResumeInit == PipelineStart(MaxFaults) /\ Constructed(TRUE, 0) /\ NotApplied

\* the process is killed inside archive_files
Interrupt ==
    /\ pc = "archive"
    /\ ~resume.interrupted
    /\ pc' = "stopped"
    /\ conn' = Closed
    /\ hist' = [hist EXCEPT !.stoppedAt = pc, !.faulted = TRUE]
    /\ resume' = [interrupted |-> TRUE, run |-> runs,
                  moved |-> Len(files) - Len(archiving),
                  batch |-> Batch, db |-> db]
    /\ UNCHANGED << dirs, db, log, clock, locals, result, runs, faults,
                    past >>
    /\ UNCHANGED << sched_vars, pure_vars, store_vars, held, work, writing >>

ResumeNext ==
    \/ \E n \in Names, c \in Contents : Stage(n, c)
    \/ Begin
    \/ Discover
    \/ ValidateNext
    \/ NoValidFiles
    \/ SelectLatest
    \/ ReadAndAggregate
    \/ PersistWrite
    \/ PersistCommit
    \/ ArchiveMove
    \/ ReturnNoValid
    \/ Report
    \/ Handler
    \/ Interrupt

ResumeSpec == ResumeInit /\ [][ResumeNext]_vars

\* the cycle after the one that was killed before its first move
NextAfterInterrupt ==
    /\ resume.interrupted
    /\ resume.moved = 0
    /\ runs = resume.run + 1

\* C34: a cycle killed after the commit and before archiving leaves its
\* files in staging, and the next cycle reprocesses them; when that cycle
\* has committed over the same batch the store holds the values the killed
\* cycle committed, one row per key; and no cycle discovers a file that lay
\* in processed/ or error/ when it began
C34_ReprocessedNotDoubled ==
    /\ (resume.interrupted /\ resume.moved = 0 /\ pc = "stopped") =>
          \A n \in resume.batch : InStagingOnly(n)
    /\ (NextAfterInterrupt /\ hist.discovered) => resume.batch \subseteq Batch
    /\ (NextAfterInterrupt /\ hist.committed /\ Batch = resume.batch) =>
          /\ Projection(db) = Projection(resume.db)
          /\ OneRowPerKey(db)
    /\ hist.discovered => Batch \cap hist.archivedBefore = {}

\* the cycle after a killed one has returned true over the same batch of
\* two files, one of which sums a key from two features
C34_Witness ==
    /\ NextAfterInterrupt
    /\ pc = "done" /\ result = "true"
    /\ Batch = resume.batch
    /\ Cardinality(Batch) = 2
    /\ \E r \in db : r.total_population = 3

(***************************************************************************)
(* Repeated cycles over a batch that no longer changes.  The snapshots are *)
(* staged before the first cycle, nothing fails, and the process_data job  *)
(* keeps firing: a cycle that can start does start, and a cycle that has   *)
(* started takes its next step.                                            *)
(***************************************************************************)
LiveInit == PipelineStart(MaxFaults) /\ Constructed(TRUE, 0) /\ NotApplied

\* the fetch collaborator stages a snapshot before the first cycle
StageEarly(n, c) == runs = 0 /\ Stage(n, c)

\* the steps of process_all_data
Cycle ==
    \/ Begin
    \/ Discover
    \/ ValidateNext
    \/ NoValidFiles
    \/ SelectLatest
    \/ ReadAndAggregate
    \/ PersistWrite
    \/ PersistCommit
    \/ ArchiveMove
    \/ ReturnNoValid
    \/ Report
    \/ Handler

\* the job fires at every interval, without end: the count of the cycles
\* only bounds the other specifications, and here a finished cycle is
\* forgotten so that another one can start
FireAgain ==
    /\ ~Running
    /\ runs = MaxRuns
    /\ runs' = MaxRuns - 1
    /\ UNCHANGED << dirs, db, conn, log, clock, pc, locals, result, faults,
                    hist, past >>
    /\ UNCHANGED << sched_vars, aside_vars >>

LiveNext ==
    \/ \E n \in Names, c \in Contents : StageEarly(n, c)
    \/ Cycle
    \/ FireAgain

LiveSpec == LiveInit /\ [][LiveNext]_vars /\ WF_vars(Cycle \/ FireAgain)

\* the files of staging that discovery admits
Candidates == { n \in Names : Globbed(n) /\ MatchesDiscovery(n) }

\* the candidates that pass validation
ValidCandidates == { n \in Candidates : validate_json_file(staging[n]) }

\* a valid candidate whose name strptime rejects, or a latest valid
\* candidate whose elements beyond the validated prefix make the
\* aggregation raise
Poisoned ==
    /\ ValidCandidates # {}
    /\ \/ \E n \in ValidCandidates : extract_timestamp(n).raised
       \/ \E n \in ValidCandidates :
             /\ \A m \in ValidCandidates : ~StampLess(Stamp(n), Stamp(m))
             /\ aggregate_by_state(staging[n].items).raised

\* C37: when no new file arrives and nothing fails, the repeated cycles
\* eventually leave staging without a candidate file, for good
C37_StagingEventuallyEmptied == <>[](Candidates = {})

\* what does hold: the cycles empty staging of its candidates unless the
\* batch holds a file that makes every cycle raise, and then the whole
\* batch stays
EmptiedUnlessPoisoned == <>[](Candidates = {} \/ Poisoned)

(***************************************************************************)
(* Where the snapshot files lie.  The cycles run over files that are       *)
(* well formed, files that do not parse, and files that validation admits  *)
(* although their sampled elements are not objects with a key and a        *)
(* numeric value.                                                          *)
(***************************************************************************)
ArchiveContents ==
    { Json("list", << Feature("CA", 1), Feature("TX", 1) >>),
      Json("list", << ListAttr >>),
      Json("corrupt", << >>) }

ArchiveNext ==
    \/ \E n \in Names, c \in ArchiveContents : Stage(n, c)
    \/ Begin
    \/ Discover
    \/ ValidateNext
    \/ NoValidFiles
    \/ SelectLatest
    \/ ReadAndAggregate
    \/ PersistWrite
    \/ PersistCommit
    \/ PersistFail
    \/ ArchiveMove
    \/ ReturnNoValid
    \/ Report
    \/ Handler
    \/ Stop

ArchiveSpec == Init /\ [][ArchiveNext]_vars

\* the number of the three directories that hold a file of this name
Copies(n) ==
    (IF staging[n] # NoFile THEN 1 ELSE 0)
    + (IF processed[n] # NoFile THEN 1 ELSE 0)
    + (IF error[n] # NoFile THEN 1 ELSE 0)

\* a valid file: it parses, is a list, and each of its first 5 elements is
\* an object with the key field and a numeric value field
ValidSnapshot(c) ==
    /\ c.shape = "list"
    /\ \A i \in 1..Len(Sampled(c)) : WellFormed(c.items[i])

\* a snapshot is in one place, and in the archive directory of its kind
PlacedBy(valid(_)) ==
    \A n \in Names :
        /\ Known(n) => Copies(n) = 1
        /\ processed[n] # NoFile => valid(processed[n])
        /\ error[n] # NoFile => ~valid(error[n])

\* a snapshot keeps its content, and an archived one stays where it is
KeptInPlace ==
    \A n \in Names :
        /\ Known(n) => Known(n)' /\ ContentOf(n)' = ContentOf(n)
        /\ processed[n] # NoFile => processed'[n] = processed[n]
        /\ error[n] # NoFile => error'[n] = error[n]

\* C38: each snapshot that entered staging is in exactly one of staging,
\* processed/ and error/; it is never deleted, duplicated or overwritten; a
\* valid file is never in error/ and an invalid one never in processed/;
\* and a file in processed/ or error/ is never moved again
C38_OnePlacePerSnapshot ==
    /\ [] PlacedBy(ValidSnapshot)
    /\ [][KeptInPlace]_vars

\* what does hold: the same with the files classified by what
\* validate_json_file answers
OnePlaceAsClassified ==
    /\ [] PlacedBy(validate_json_file)
    /\ [][KeptInPlace]_vars

\* a row of the store is written anew in this step, in place of row r
Replaces(r2, r) ==
    /\ r \in db /\ r2 \in db' /\ r2 \notin db
    /\ r2.state_name = r.state_name

\* C39: latest wins between the cycles too: the row of a key is never
\* replaced by data from a file whose embedded timestamp is older than that
\* of the file recorded as the row's source_file
C39_LatestWinsAcrossCycles ==
    [][ \A r \in db, r2 \in db' :
          Replaces(r2, r) =>
             ~StampLess(Stamp(r2.source_file), Stamp(r.source_file)) ]_vars

\* what does hold: the rows change at the commit only, and a row written
\* anew carries the latest valid file of the batch of the running cycle,
\* whatever the stored rows came from
RowsFromLatestOfBatch ==
    [][ db' # db =>
          /\ pc = "persist" /\ pc' = "archive"
          /\ \A r2 \in db' \ db :
                /\ r2.source_file = latest_file
                /\ latest_file \in ValidBatch
                /\ \A m \in ValidBatch :
                      ~StampLess(Stamp(latest_file), Stamp(m)) ]_vars

(***************************************************************************)
(* The fetcher writing next to a running cycle.  _save_data_to_file opens  *)
(* the file under its final name in the staging directory and json.dump    *)
(* writes it piece by piece: from the open to the close the file is there  *)
(* for the cycle to find, and what it holds is a prefix of the JSON text,  *)
(* which does not parse.  A move renames the file; the writer keeps        *)
(* writing to it wherever it lies.  Nothing else fails.                    *)
(***************************************************************************)
WriteInit == PipelineStart(MaxFaults) /\ Constructed(TRUE, 0) /\ NotApplied

\* what a reader finds in a file that is being written
Partial == Json("corrupt", << >>)

\* with open(filename, 'w') as f
WriteOpen(n, c) ==
    /\ ~writing.open
    /\ ~Known(n)
    /\ Cardinality({ m \in Names : Known(m) }) < MaxFiles
    /\ staging' = [staging EXCEPT ![n] = Partial]
    /\ writing' = [open |-> TRUE, name |-> n, content |-> c]
    /\ UNCHANGED << processed, error, db, conn, log, clock, pc, locals,
                    result, runs, faults, hist, past >>
    /\ UNCHANGED << sched_vars, pure_vars, store_vars, held, work, resume >>

\* the file of the writer, in the directory it lies in now
Written(dir) ==
    IF dir[writing.name] # NoFile
    THEN [dir EXCEPT ![writing.name] = writing.content]
    ELSE dir

\* json.dump(data, f, indent=2) has written everything; the file is closed
WriteClose ==
    /\ writing.open
    /\ staging' = Written(staging)
    /\ processed' = Written(processed)
    /\ error' = Written(error)
    /\ writing' = [writing EXCEPT !.open = FALSE]
    /\ UNCHANGED << db, conn, log, clock, pc, locals, result, runs, faults,
                    hist, past >>
    /\ UNCHANGED << sched_vars, pure_vars, store_vars, held, work, resume >>

WriteNext ==
    \/ \E n \in Names, c \in Contents : WriteOpen(n, c)
    \/ WriteClose
    \/ Cycle

WriteSpec == WriteInit /\ [][WriteNext]_vars

\* the file is still being written
BeingWritten(n) == writing.open /\ writing.name = n

\* C40: with the fetcher writing during a cycle, a snapshot whose completed
\* content is valid is never classified invalid and moved to error/, and
\* no cycle aggregates a file that is still being written
C40_WriterAndCycle ==
    /\ [](\A n \in Names :
            (error[n] # NoFile /\ ~BeingWritten(n)) =>
                ~validate_json_file(error[n]))
    /\ [][(pc = "read" /\ pc' = "persist") => ~BeingWritten(latest_file)]_vars

\* what does hold: a file that is being written never passes validation,
\* so no cycle selects or aggregates it, and whatever lies in processed/
\* when the writer is done is valid
PartialNeverAggregated ==
    /\ [](\A i \in 1..Len(valid_files) : ~BeingWritten(valid_files[i]))
    /\ [](\A n \in Names :
            (processed[n] # NoFile /\ ~BeingWritten(n)) =>
                validate_json_file(processed[n]))
    /\ [][(pc = "read" /\ pc' = "persist") => ~BeingWritten(latest_file)]_vars

====
